---- MODULE Spec2Model ----
(***************************************************************************)
(* Model of the OCA session lifecycle: SessionManager.create_session, the  *)
(* Session task operations, the GitWrapper commands they are built on and  *)
(* OllamaClient.generate.                                                   *)
(*                                                                         *)
(* Strings are sequences of tokens, so that f"prefix: {e}" is a            *)
(* concatenation and "starts with" is a prefix test.  Everything outside   *)
(* the repository (the git binary, the filesystem, the HTTP service) is    *)
(* an environment whose answers are chosen nondeterministically.           *)
(***************************************************************************)
EXTENDS Integers, Sequences, FiniteSets, TLC

\* ------------------------------------------------------------------ bounds
MaxTasks == 2          \* task operations the caller runs inside one session
MaxCalls == 2          \* GitWrapper calls a client makes in GitSpec
MaxOps == 2            \* task operations a client runs on a Session in TaskSpec
MaxRuns == 2           \* runs of init_project on one project directory in InitSpec

\* ------------------------------------------------------------- vocabulary
Root == "repo"                         \* SessionManager.cwd
WorktreePath == "tmp/oca-session-1/worktree"   \* Path(temp_dir) / "worktree"
OtherPath == "tmp/other/worktree"
Paths == {WorktreePath, OtherPath}
None == "None"                         \* Python's None, and every falsy optional

NoExc == [type |-> "none", msg |-> <<>>]
Exc(t, m) == [type |-> t, msg |-> m]
Raised(e) == e.type # "none"

IsPrefix(p, s) == Len(p) <= Len(s) /\ SubSeq(s, 1, Len(p)) = p

\* ---------------------------------------------------------- the environment
\* What git and the filesystem hold: paths that exist, registered worktrees,
\* branches, worktrees with uncommitted changes, commits made, the log of
\* every git command issued (cwd and argument vector), and the entries of
\* .oca/session.log in the session's worktree.  ocaIgnored: the repository's
\* .gitignore lists .oca/, so that the session log never shows as a change.
EmptyWorld(repo, ignored) ==
    [isRepo |-> repo, ocaIgnored |-> ignored, paths |-> {}, worktrees |-> {}, branches |-> {<<"main">>},
     dirty |-> {}, commits |-> <<>>, cmds |-> <<>>, log |-> <<>>]

\* GitWrapper._run_git: one subprocess in cwd; ok is the exit status being zero.
_run_git(w, cwd, args, ok) ==
    [w |-> [w EXCEPT !.cmds = Append(@, [cwd |-> cwd, args |-> args])],
     exc |-> IF ok THEN NoExc
             ELSE Exc("GitError", <<"Git command failed: git">> \o args)]

\* is_git_repo answering True whatever rev-parse says.
is_git_repo_unchecked(w, cwd) ==
    LET r == _run_git(w, cwd, <<"rev-parse", "--git-dir">>, w.isRepo)
    IN  [w |-> r.w, ret |-> TRUE]

\* GitWrapper.is_git_repo: rev-parse succeeds exactly in a repository.
is_git_repo(w, cwd) ==
    LET r == _run_git(w, cwd, <<"rev-parse", "--git-dir">>, w.isRepo)
    IN  [w |-> r.w, ret |-> ~Raised(r.exc)]

\* What `git worktree add -b` can leave behind.  Success leaves the path, the
\* registration and the branch.  A failing command may have done part of the
\* work already (a failing post-checkout hook leaves all three).
AddOutcomes ==
    { [ok |-> TRUE, path |-> TRUE, mounted |-> TRUE, branch |-> TRUE] } \cup
    { o \in [ok : {FALSE}, path : BOOLEAN, mounted : BOOLEAN, branch : BOOLEAN] :
        o.mounted => o.path /\ o.branch }
NothingAdded == [ok |-> FALSE, path |-> FALSE, mounted |-> FALSE, branch |-> FALSE]

WorktreeAdd(w, path, branch, out) ==
    [w EXCEPT !.paths = IF out.path THEN @ \cup {path} ELSE @,
              !.worktrees = IF out.mounted THEN @ \cup {path} ELSE @,
              !.branches = IF out.branch THEN @ \cup {branch} ELSE @]

\* create_worktree checking out the branch when it already exists, instead
\* of asking for a new one with -b.
create_worktree_attaching(w, repo, path, branch, out) ==
    IF path \in w.paths
    THEN [w |-> w, exc |-> Exc("GitError", <<"Worktree path already exists: ", path>>)]
    ELSE LET r == _run_git(w, repo,
                           IF branch \in w.branches
                           THEN <<"worktree", "add", path>> \o branch
                           ELSE <<"worktree", "add", "-b">> \o branch \o <<path>>, out.ok)
         IN  [w |-> WorktreeAdd(r.w, path, branch, out), exc |-> r.exc]

\* create_worktree keeping a failure of `git worktree add` to itself.
create_worktree_silent(w, repo, path, branch, out) ==
    IF path \in w.paths
    THEN [w |-> w, exc |-> Exc("GitError", <<"Worktree path already exists: ", path>>)]
    ELSE LET eff == IF branch \in w.branches
                    THEN NothingAdded
                    ELSE out
             r == _run_git(w, repo, <<"worktree", "add", "-b">> \o branch \o <<path>>, eff.ok)
         IN  [w |-> WorktreeAdd(r.w, path, branch, eff), exc |-> NoExc]

\* create_worktree without its pre-check of the path.
create_worktree_unguarded(w, repo, path, branch, out) ==
    LET eff == IF branch \in w.branches
               THEN NothingAdded
               ELSE out
        r == _run_git(w, repo, <<"worktree", "add", "-b">> \o branch \o <<path>>, eff.ok)
    IN  [w |-> WorktreeAdd(r.w, path, branch, eff), exc |-> r.exc]

\* GitWrapper.create_worktree.  -b refuses a branch name that exists.
create_worktree(w, repo, path, branch, out) ==
    IF path \in w.paths
    THEN [w |-> w, exc |-> Exc("GitError", <<"Worktree path already exists: ", path>>)]
    ELSE LET eff == IF branch \in w.branches
                    THEN NothingAdded
                    ELSE out
             r == _run_git(w, repo, <<"worktree", "add", "-b">> \o branch \o <<path>>, eff.ok)
         IN  [w |-> WorktreeAdd(r.w, path, branch, eff), exc |-> r.exc]

\* remove_worktree taking the worktree's branch along: every branch but main.
remove_worktree_deleting_branch(w, repo, path, force, envOk) ==
    LET args == IF force THEN <<"worktree", "remove", path, "--force">>
                ELSE <<"worktree", "remove", path>>
        ok == envOk /\ path \in w.worktrees /\ (force \/ path \notin w.dirty)
        r == _run_git(w, repo, args, ok)
    IN  [w |-> IF ok THEN [r.w EXCEPT !.paths = @ \ {path},
                                      !.worktrees = @ \ {path},
                                      !.dirty = @ \ {path},
                                      !.branches = {<<"main">>}]
               ELSE r.w,
         exc |-> r.exc]

\* GitWrapper.remove_worktree.  git refuses a path that is no worktree, and a
\* dirty worktree unless --force is given; envOk is every other reason.
remove_worktree(w, repo, path, force, envOk) ==
    LET args == IF force THEN <<"worktree", "remove", path, "--force">>
                ELSE <<"worktree", "remove", path>>
        ok == envOk /\ path \in w.worktrees /\ (force \/ path \notin w.dirty)
        r == _run_git(w, repo, args, ok)
    IN  [w |-> IF ok THEN [r.w EXCEPT !.paths = @ \ {path},
                                      !.worktrees = @ \ {path},
                                      !.dirty = @ \ {path}]
               ELSE r.w,
         exc |-> r.exc]

\* GitWrapper.has_changes: a failing status query reads as "no changes".
has_changes(w, cwd, envOk) ==
    LET r == _run_git(w, cwd, <<"status", "--porcelain">>, envOk)
    IN  [w |-> r.w, ret |-> IF Raised(r.exc) THEN FALSE ELSE cwd \in w.dirty,
         swallowed |-> r.exc]

\* commit going on to `git commit` after a failed `git add`.
commit_after_failed_stage(w, cwd, message, add_all, addOk, commitOk) ==
    LET a == IF add_all THEN _run_git(w, cwd, <<"add", ".">>, addOk)
             ELSE [w |-> w, exc |-> NoExc]
        ok == commitOk /\ cwd \in w.dirty /\ add_all /\ addOk
        c == _run_git(a.w, cwd, <<"commit", "-m">> \o message, ok)
    IN  [w |-> IF ok THEN [c.w EXCEPT !.dirty = @ \ {cwd},
                                      !.commits = Append(@, [cwd |-> cwd, msg |-> message])]
               ELSE c.w,
         exc |-> IF Raised(a.exc) THEN a.exc ELSE c.exc]

\* GitWrapper.commit: stage everything (if add_all), then commit.  git commit
\* fails when nothing is staged: the worktree is clean, or nothing was added.
commit(w, cwd, message, add_all, addOk, commitOk) ==
    LET a == IF add_all THEN _run_git(w, cwd, <<"add", ".">>, addOk)
             ELSE [w |-> w, exc |-> NoExc]
    IN  IF Raised(a.exc) THEN a
        ELSE LET ok == commitOk /\ cwd \in w.dirty /\ add_all
                 c == _run_git(a.w, cwd, <<"commit", "-m">> \o message, ok)
             IN  [w |-> IF ok THEN [c.w EXCEPT !.dirty = @ \ {cwd},
                                               !.commits = Append(@, [cwd |-> cwd, msg |-> message])]
                        ELSE c.w,
                  exc |-> c.exc]

\* Decimal digits of n, zero-padded (and cut) to width: %m, %d, %H, %M, %S
\* with width 2, %Y with width 4.
Digits == <<"0", "1", "2", "3", "4", "5", "6", "7", "8", "9">>
RECURSIVE Pad(_, _)
Pad(n, width) ==
    IF width = 0 THEN <<>> ELSE Pad(n \div 10, width - 1) \o <<Digits[(n % 10) + 1]>>

\* Decimal digits of n without padding.
RECURSIVE Dec(_)
Dec(n) == IF n < 10 THEN <<Digits[n + 1]>> ELSE Dec(n \div 10) \o <<Digits[(n % 10) + 1]>>

\* strftime without zero padding.
strftime_unpadded(clock) ==
    Dec(clock.year) \o Dec(clock.month) \o Dec(clock.day) \o <<"-">>
        \o Dec(clock.hour) \o Dec(clock.minute) \o Dec(clock.second)

\* datetime.now().strftime("%Y%m%d-%H%M%S") of a clock reading.
strftime(clock) ==
    Pad(clock.year, 4) \o Pad(clock.month, 2) \o Pad(clock.day, 2) \o <<"-">>
        \o Pad(clock.hour, 2) \o Pad(clock.minute, 2) \o Pad(clock.second, 2)

\* GitWrapper.generate_branch_name: f"{prefix}/session-{timestamp}".
generate_branch_name(prefix, clock) == <<prefix, "/session-">> \o strftime(clock)


\* ------------------------------------------------------ OllamaClient.generate
\* What requests.post and the service can answer.
HttpOutcomes ==
    {"ConnectionError", "Timeout", "RequestException", "HTTPError", "InvalidJSON",
     "ObjText", "ObjBlank", "ObjNonString", "ObjMissing", "NotAnObject"}

\* str.strip() on the texts the model uses: a blank text strips to "".
strip(text) == SelectSeq(text, LAMBDA t : t # " ")

\* The body of a 200 answer: result["response"] where there is one.
ResponseField(http) ==
    CASE http = "ObjText" -> <<" ", "answer", " ">>
      [] http = "ObjBlank" -> <<" ">>
      [] OTHER -> <<>>

\* str(result) of a JSON object without 'response', e.g. {'model': 'testmodel'}.
StrOfResult == <<"{'model': 'testmodel'}">>

\* A full prompt with the context placed after the user prompt.
full_prompt_context_last(prompt, system_prompt, context) ==
    LET p == IF system_prompt # <<>>
             THEN <<"System: ">> \o system_prompt \o <<"\n\n", "User: ">> \o prompt
             ELSE prompt
    IN  IF context # <<>> THEN p \o <<"\n\n", "Context:\n">> \o context ELSE p

\* The full prompt sent as payload["prompt"].
full_prompt(prompt, system_prompt, context) ==
    LET p == IF system_prompt # <<>>
             THEN <<"System: ">> \o system_prompt \o <<"\n\n", "User: ">> \o prompt
             ELSE prompt
    IN  IF context # <<>> THEN <<"Context:\n">> \o context \o <<"\n\n">> \o p ELSE p

\* OllamaClient._generate_mock_response: a canned, non-empty text.
_generate_mock_response(prompt, system_prompt, context) == <<"mock response">>

\* generate without its last except clause: what is none of the requests and
\* JSON errors escapes as it was raised.
generate_without_catch_all(mock_mode, prompt, system_prompt, context, http) ==
    IF mock_mode
    THEN [ret |-> _generate_mock_response(prompt, system_prompt, context),
          exc |-> NoExc, sent |-> <<>>, requests |-> 0]
    ELSE LET sent == full_prompt(prompt, system_prompt, context)
             fail(m) == [ret |-> <<>>, exc |-> Exc("OllamaError", m),
                         sent |-> sent, requests |-> 1]
             ok(t) == [ret |-> t, exc |-> NoExc, sent |-> sent, requests |-> 1]
         IN  CASE http = "HTTPError" -> fail(<<"HTTP Error ", "500">>)
               [] http = "ConnectionError" -> fail(<<"Connection failed to ", "url">>)
               [] http = "Timeout" -> fail(<<"Request timed out after ", "180s">>)
               [] http = "RequestException" -> fail(<<"Request failed: ", "e">>)
               [] http = "InvalidJSON" -> fail(<<"Invalid JSON response: ", "e">>)
               [] http \in {"ObjText", "ObjBlank"} -> ok(strip(ResponseField(http)))
               [] http = "ObjMissing" -> ok(StrOfResult)
               [] OTHER -> [ret |-> <<>>, exc |-> Exc("AttributeError", <<"e">>),
                            sent |-> sent, requests |-> 1]

\* OllamaClient.generate: [ret, exc, sent, requests].
generate(mock_mode, prompt, system_prompt, context, http) ==
    IF mock_mode
    THEN [ret |-> _generate_mock_response(prompt, system_prompt, context),
          exc |-> NoExc, sent |-> <<>>, requests |-> 0]
    ELSE LET sent == full_prompt(prompt, system_prompt, context)
             fail(m) == [ret |-> <<>>, exc |-> Exc("OllamaError", m),
                         sent |-> sent, requests |-> 1]
             ok(t) == [ret |-> t, exc |-> NoExc, sent |-> sent, requests |-> 1]
         IN  CASE http = "HTTPError" -> fail(<<"HTTP Error ", "500">>)
               [] http = "ConnectionError" -> fail(<<"Connection failed to ", "url">>)
               [] http = "Timeout" -> fail(<<"Request timed out after ", "180s">>)
               [] http = "RequestException" -> fail(<<"Request failed: ", "e">>)
               [] http = "InvalidJSON" -> fail(<<"Invalid JSON response: ", "e">>)
               [] http \in {"ObjText", "ObjBlank"} -> ok(strip(ResponseField(http)))
               [] http = "ObjMissing" -> ok(StrOfResult)
               \* None.strip() and list.keys() raise AttributeError, caught last
               [] OTHER -> fail(<<"Unexpected error: ", "e">>)

\* -------------------------------------------------------------------- Session
Ops == {"explain", "fix", "refactor", "generate_tests", "create_commit", "search_code"}
FileOps == {"explain", "fix", "refactor", "generate_tests"}

\* What the filesystem holds at worktree_path / target_file.  "unreadable":
\* read_text() raises.  "inaccessible": the stat behind exists() fails with
\* something other than not-found (name too long, a parent that may not be
\* searched), which Path.exists() raises as OSError.
FileStates == {"readable", "missing", "directory", "unreadable", "inaccessible"}
FileText == <<"def add(a, b): return a + b">>

\* Session._get_file_context: [ret, exc].  The try covers read_text() only.
_get_file_context(target_file, file) ==
    IF target_file = <<>> THEN [ret |-> <<>>, exc |-> NoExc]
    ELSE IF file = "inaccessible"
         THEN [ret |-> <<>>, exc |-> Exc("OSError", <<"[Errno 36] File name too long: ">> \o target_file)]
    ELSE IF file = "readable"
         THEN [ret |-> <<"File: ">> \o target_file \o <<"\n">> \o FileText, exc |-> NoExc]
    ELSE [ret |-> <<>>, exc |-> NoExc]

\* What the filesystem and git answer while the session log is written and
\* committed.  The first step that fails ends the attempt.
LogEnvs ==
    { [mkdir |-> m, write |-> wr, status |-> st, add |-> a, commit |-> c] :
        m \in BOOLEAN, wr \in BOOLEAN, st \in BOOLEAN, a \in BOOLEAN, c \in BOOLEAN }
AllOk == [mkdir |-> TRUE, write |-> TRUE, status |-> TRUE, add |-> TRUE, commit |-> TRUE]
\* One environment per place the attempt can end.
CanonLogEnvs ==
    { le \in LogEnvs : /\ ~le.mkdir => le.write
                       /\ ~(le.mkdir /\ le.write) => le.status
                       /\ ~(le.mkdir /\ le.write /\ le.status) => le.add
                       /\ ~(le.mkdir /\ le.write /\ le.status /\ le.add) => le.commit }

\* _commit_session_log working in the repository root instead of the worktree.
_commit_session_log_in_repo(w, sess, commit_msg, command, prompt, response, le) ==
    LET wt == Root
        quit(w1, n, m) == [w |-> w1, appended |-> 0, commits |-> 0,
                           has_changes |-> None, writes |-> n,
                           swallowed |-> Exc("OSError", <<m>>), status_exc |-> NoExc]
    IN  IF ~le.mkdir THEN quit(w, 0, "mkdir failed")
        ELSE IF ~le.write THEN quit(w, 1, "write failed")
        ELSE
          LET entry == [command |-> command, prompt |-> prompt, response |-> response]
              w1 == [w EXCEPT !.log = Append(@, entry),
                            !.dirty = IF w.ocaIgnored THEN @ ELSE @ \cup {wt}]
              h == has_changes(w1, wt, le.status)
              c == IF h.ret THEN commit(h.w, wt, commit_msg, TRUE, le.add, le.commit)
                   ELSE [w |-> h.w, exc |-> NoExc]
          IN  [w |-> c.w, appended |-> 1, commits |-> IF h.ret THEN 1 ELSE 0,
               has_changes |-> IF h.ret THEN "True" ELSE "False", writes |-> 2,
               swallowed |-> c.exc, status_exc |-> h.swallowed]

\* _commit_session_log opening the log file for writing instead of appending.
_commit_session_log_overwriting(w, sess, commit_msg, command, prompt, response, le) ==
    LET wt == sess.worktree_path
        quit(w1, n, m) == [w |-> w1, appended |-> 0, commits |-> 0,
                           has_changes |-> None, writes |-> n,
                           swallowed |-> Exc("OSError", <<m>>), status_exc |-> NoExc]
    IN  IF ~le.mkdir THEN quit(w, 0, "mkdir failed")
        ELSE IF ~le.write THEN quit(w, 1, "write failed")
        ELSE
          LET entry == [command |-> command, prompt |-> prompt, response |-> response]
              w1 == [w EXCEPT !.log = <<entry>>,
                            !.dirty = IF w.ocaIgnored THEN @ ELSE @ \cup {wt}]
              h == has_changes(w1, wt, le.status)
              c == IF h.ret THEN commit(h.w, wt, commit_msg, TRUE, le.add, le.commit)
                   ELSE [w |-> h.w, exc |-> NoExc]
          IN  [w |-> c.w, appended |-> 1, commits |-> IF h.ret THEN 1 ELSE 0,
               has_changes |-> IF h.ret THEN "True" ELSE "False", writes |-> 2,
               swallowed |-> c.exc, status_exc |-> h.swallowed]

\* Session._commit_session_log.  Every exception is swallowed: `swallowed` is
\* what its except clause caught, `status_exc` what has_changes caught.
\* [w, appended, commits, has_changes, writes, swallowed, status_exc]
_commit_session_log(w, sess, commit_msg, command, prompt, response, le) ==
    LET wt == sess.worktree_path
        quit(w1, n, m) == [w |-> w1, appended |-> 0, commits |-> 0,
                           has_changes |-> None, writes |-> n,
                           swallowed |-> Exc("OSError", <<m>>), status_exc |-> NoExc]
    IN  IF ~le.mkdir THEN quit(w, 0, "mkdir failed")
        ELSE IF ~le.write THEN quit(w, 1, "write failed")
        ELSE
          LET entry == [command |-> command, prompt |-> prompt, response |-> response]
              w1 == [w EXCEPT !.log = Append(@, entry),
                            !.dirty = IF w.ocaIgnored THEN @ ELSE @ \cup {wt}]
              h == has_changes(w1, wt, le.status)
              c == IF h.ret THEN commit(h.w, wt, commit_msg, TRUE, le.add, le.commit)
                   ELSE [w |-> h.w, exc |-> NoExc]
          IN  [w |-> c.w, appended |-> 1, commits |-> IF h.ret THEN 1 ELSE 0,
               has_changes |-> IF h.ret THEN "True" ELSE "False", writes |-> 2,
               swallowed |-> c.exc, status_exc |-> h.swallowed]

\* No session log attempt.
NotLogged(w) == [w |-> w, appended |-> 0, commits |-> 0, has_changes |-> None, writes |-> 0,
                 swallowed |-> NoExc, status_exc |-> NoExc]

\* An exception raised before the try block of a task operation leaves it as
\* it is: nothing was sent, nothing logged.
Escapes(w, exc) ==
    [w |-> w, ret |-> <<>>, exc |-> exc,
     gen |-> [ret |-> <<>>, exc |-> NoExc, sent |-> <<>>, requests |-> 0],
     context |-> <<>>, commit_msg |-> <<>>, log |-> NotLogged(w)]

\* run_task writing and committing the session log whatever auto_commit says.
run_task_always_logging(w, sess, prefix, command, commit_msg, prompt, system_prompt, context, e) ==
    LET g == generate(sess.mock_mode, prompt, system_prompt, context, e.http)
        none == NotLogged(w)
    IN  IF Raised(g.exc)
        THEN [w |-> w, ret |-> <<>>,
              exc |-> Exc("SessionError", <<prefix, ": ">> \o g.exc.msg),
              gen |-> g, context |-> context, commit_msg |-> commit_msg, log |-> none]
        ELSE LET c == _commit_session_log(w, sess, commit_msg, command, prompt, g.ret, e.log)
             IN  [w |-> c.w, ret |-> g.ret, exc |-> NoExc,
                  gen |-> g, context |-> context, commit_msg |-> commit_msg, log |-> c]

\* run_task recording a failed generation in the session log as well.
run_task_logging_failures(w, sess, prefix, command, commit_msg, prompt, system_prompt, context, e) ==
    LET g == generate(sess.mock_mode, prompt, system_prompt, context, e.http)
        c == IF sess.auto_commit
             THEN _commit_session_log(w, sess, commit_msg, command, prompt, g.ret, e.log)
             ELSE NotLogged(w)
    IN  [w |-> c.w, ret |-> g.ret,
         exc |-> IF Raised(g.exc)
                 THEN Exc("SessionError", <<prefix, ": ">> \o g.exc.msg) ELSE NoExc,
         gen |-> g, context |-> context, commit_msg |-> commit_msg, log |-> c]

\* The try block every task operation ends with: one generation request; on
\* success the log-and-commit when auto_commit is set; OllamaError becomes
\* SessionError(f"{prefix}: {e}").
run_task(w, sess, prefix, command, commit_msg, prompt, system_prompt, context, e) ==
    LET g == generate(sess.mock_mode, prompt, system_prompt, context, e.http)
        none == NotLogged(w)
    IN  IF Raised(g.exc)
        THEN [w |-> w, ret |-> <<>>,
              exc |-> Exc("SessionError", <<prefix, ": ">> \o g.exc.msg),
              gen |-> g, context |-> context, commit_msg |-> commit_msg, log |-> none]
        ELSE LET c == IF sess.auto_commit
                      THEN _commit_session_log(w, sess, commit_msg, command, prompt, g.ret, e.log)
                      ELSE none
             IN  [w |-> c.w, ret |-> g.ret, exc |-> NoExc,
                  gen |-> g, context |-> context, commit_msg |-> commit_msg, log |-> c]

Opt(label, v) == IF v # <<>> THEN <<label>> \o v \o <<")">> ELSE <<>>

\* Session.explain(prompt, target_file)
explain(w, sess, a, e) ==
    LET fc == _get_file_context(a.target_file, e.file)
    IN  IF Raised(fc.exc) THEN Escapes(w, fc.exc)
        ELSE
    run_task(w, sess, "Failed to generate explanation", "explain",
             <<"OCA explain: ">> \o a.prompt \o Opt(" (file: ", a.target_file),
             a.prompt, <<"system prompt: explain">>,
             fc.ret, e)

\* Session.fix(prompt, error_message, target_file)
fix(w, sess, a, e) ==
    LET fc == _get_file_context(a.target_file, e.file)
    IN  IF Raised(fc.exc) THEN Escapes(w, fc.exc)
        ELSE
    run_task(w, sess, "Failed to generate fix", "fix",
             <<"OCA fix: ">> \o a.prompt \o Opt(" (file: ", a.target_file)
                 \o (IF a.extra # <<>> THEN <<" (error: ">> \o a.extra \o <<"...)">> ELSE <<>>),
             a.prompt, <<"system prompt: fix">>,
             fc.ret
                 \o (IF a.extra # <<>> THEN <<"\n\nError Message:\n">> \o a.extra ELSE <<>>), e)

\* Session.refactor(prompt, pattern, target_file)
refactor(w, sess, a, e) ==
    LET fc == _get_file_context(a.target_file, e.file)
    IN  IF Raised(fc.exc) THEN Escapes(w, fc.exc)
        ELSE
    run_task(w, sess, "Failed to generate refactoring", "refactor",
             <<"OCA refactor: ">> \o a.prompt \o Opt(" (file: ", a.target_file)
                 \o Opt(" (pattern: ", a.extra),
             a.prompt, <<"system prompt: refactor">>,
             fc.ret
                 \o (IF a.extra # <<>> THEN <<"\n\nRefactoring Pattern: ">> \o a.extra ELSE <<>>), e)

\* Session.generate_tests(prompt, coverage, style, target_file)
generate_tests(w, sess, a, e) ==
    LET fc == _get_file_context(a.target_file, e.file)
    IN  IF Raised(fc.exc) THEN Escapes(w, fc.exc)
        ELSE
    run_task(w, sess, "Failed to generate tests", "test",
             <<"OCA test: ">> \o a.prompt \o Opt(" (file: ", a.target_file)
                 \o Opt(" (style: ", a.extra),
             a.prompt, <<"system prompt: tests">>,
             fc.ret
                 \o (IF a.extra # <<>> THEN <<"\n\nTest Style: ">> \o a.extra ELSE <<>>)
                 \o (IF a.flag THEN <<"\n\nFocus on comprehensive test coverage including edge cases.">>
                     ELSE <<>>), e)

\* Session.create_commit(message, commit_type).  GitWrapper has no get_status
\* and no get_diff: with changes present the lookup raises AttributeError,
\* which the except clause turns into the context.
create_commit(w, sess, a, e) ==
    LET h == has_changes(w, sess.worktree_path, e.pre)
        ctx == IF h.ret THEN <<"Could not analyze changes: ", "no attribute 'get_status'">>
               ELSE <<"No changes detected in working directory.">>
        prompt_text == IF a.prompt # <<>> THEN a.prompt
                       ELSE <<"Analyze the changes and create an appropriate commit message">>
    IN  run_task(h.w, sess, "Failed to generate commit message", "commit",
                 <<"OCA commit: Generated commit message">>,
                 prompt_text, <<"system prompt: commit">>,
                 ctx \o (IF a.extra # <<>> THEN <<"\n\nCommit Type: ">> \o a.extra ELSE <<>>), e)

\* The FileScanner part of search_code: it only reads; any exception ends in
\* the context.
ScanContext(a, scan) ==
    IF scan = "error" THEN <<"\nError during codebase scan: ", "e">>
    ELSE IF a.search_type = <<"function">>
         THEN (IF scan = "found" THEN <<"\nFunctions found:\n", "a.py: 1 functions">>
               ELSE <<"\nNo functions found in codebase.">>)
    ELSE IF a.search_type = <<"class">>
         THEN (IF scan = "found" THEN <<"\nClasses found:\n", "a.py: 1 classes">>
               ELSE <<"\nNo classes found in codebase.">>)
    ELSE IF a.extra # <<>>
         THEN (IF scan = "found" THEN <<"\nRegex search results:\n", "a.py: 1 matches\n">>
               ELSE <<"\nNo matches found for regex: ">> \o a.extra)
    ELSE (IF scan = "found" THEN <<"\nSearch results for '", "keyword", "':\n">>
          ELSE <<"\nNo results found for keyword: ", "keyword">>)

\* search_code raising with the prefix of the generating tasks.
search_code_generic_prefix(w, sess, a, e) ==
    run_task(w, sess, "Failed to generate search", "search",
             <<"OCA search: ">> \o a.prompt \o Opt(" (regex: ", a.extra),
             a.prompt, <<"system prompt: search">>,
             (IF a.extra # <<>> THEN <<"Regex Pattern: ">> \o a.extra \o <<"\n">> ELSE <<>>)
                 \o (IF a.search_type # <<>> THEN <<"Search Type: ">> \o a.search_type \o <<"\n">>
                     ELSE <<>>)
                 \o ScanContext(a, e.scan), e)

\* Session.search_code(prompt, regex, search_type)
search_code(w, sess, a, e) ==
    run_task(w, sess, "Failed to perform search", "search",
             <<"OCA search: ">> \o a.prompt \o Opt(" (regex: ", a.extra),
             a.prompt, <<"system prompt: search">>,
             (IF a.extra # <<>> THEN <<"Regex Pattern: ">> \o a.extra \o <<"\n">> ELSE <<>>)
                 \o (IF a.search_type # <<>> THEN <<"Search Type: ">> \o a.search_type \o <<"\n">>
                     ELSE <<>>)
                 \o ScanContext(a, e.scan), e)

\* The task operation `op` of a Session.
Task(op, w, sess, a, e) ==
    CASE op = "explain" -> explain(w, sess, a, e)
      [] op = "fix" -> fix(w, sess, a, e)
      [] op = "refactor" -> refactor(w, sess, a, e)
      [] op = "generate_tests" -> generate_tests(w, sess, a, e)
      [] op = "create_commit" -> create_commit(w, sess, a, e)
      [] op = "search_code" -> search_code(w, sess, a, e)

\* A stand-in that echoes the caller's text and nothing else.
DryRunTask_echo(op, a) == a.prompt

\* The stand-in session of dry-run mode: six lambdas on a Mock.
DryRunTask(op, a) ==
    LET what == CASE op = "explain" -> "Would explain '"
                  [] op = "fix" -> "Would fix '"
                  [] op = "refactor" -> "Would refactor '"
                  [] op = "generate_tests" -> "Would generate tests '"
                  [] op = "create_commit" -> "Would create commit '"
                  [] op = "search_code" -> "Would search '"
        shown == IF op = "create_commit" /\ a.prompt = <<>> THEN <<"auto-generated">>
                 ELSE a.prompt
    IN  <<"DRY RUN: ", what>> \o shown \o <<"'">>

\* ------------------------------------------------------------- SessionManager
\* datetime.now() when create_session runs: 2024-01-01T12:00:00.
Now == [year |-> 2024, month |-> 1, day |-> 1, hour |-> 12, minute |-> 0, second |-> 0]

\* Exception classes caught by `except Exception`; KeyboardInterrupt and
\* SystemExit derive from BaseException only.
ExceptionTypes == {"Exception", "GitError", "OllamaError", "SessionError"}

\* An except clause that re-raises what it caught.
except_clause_reraising(e) == e

\* An except clause that catches BaseException.
except_clause_catching_all(e) ==
    IF Raised(e)
    THEN Exc("SessionError", <<"Failed to create session: ">> \o e.msg)
    ELSE e

\* The except clause of create_session, applied to the exception in flight.
except_clause(e) ==
    IF e.type \in ExceptionTypes
    THEN Exc("SessionError", <<"Failed to create session: ">> \o e.msg)
    ELSE e

\* A finally clause that removes without force.
finalizer_without_force(w, path, rmOk) ==
    IF path \in w.paths
    THEN LET r == remove_worktree(w, Root, path, FALSE, rmOk)
         IN  [w |-> r.w, cleanup |-> IF Raised(r.exc) THEN "failed" ELSE "removed",
              swallowed |-> r.exc]
    ELSE [w |-> w, cleanup |-> "skipped", swallowed |-> NoExc]

\* The finally clause of create_session: remove the worktree if its path
\* exists; whatever the removal raises is swallowed.
finalizer(w, path, rmOk) ==
    IF path \in w.paths
    THEN LET r == remove_worktree(w, Root, path, TRUE, rmOk)
         IN  [w |-> r.w, cleanup |-> IF Raised(r.exc) THEN "failed" ELSE "removed",
              swallowed |-> r.exc]
    ELSE [w |-> w, cleanup |-> "skipped", swallowed |-> NoExc]

\* TemporaryDirectory.__exit__: the directory and all it holds are deleted.
\* A worktree registration git still holds is not touched.
release_tempdir(w) ==
    [w EXCEPT !.paths = @ \ {WorktreePath}, !.dirty = @ \ {WorktreePath}, !.log = <<>>]

\* The same for the temporary directory that holds worktree `path`.
release_tempdir_of(w, path) ==
    [w EXCEPT !.paths = @ \ {path}, !.dirty = @ \ {path}]

\* leave with the cleanup also run by the except clause.
leave_cleaning_twice(w, e, rmOk) ==
    LET f0 == IF Raised(e) THEN finalizer(w, WorktreePath, rmOk)
              ELSE [w |-> w, cleanup |-> "skipped", swallowed |-> NoExc]
        f == finalizer(f0.w, WorktreePath, rmOk)
    IN  [w |-> release_tempdir(f.w), outcome |-> except_clause(e), cleanup |-> f.cleanup,
         events |-> (IF f.cleanup = "skipped" THEN <<>> ELSE <<"remove_worktree">>)
                    \o <<"rmtree">>]

\* leave with a finally clause that lets the removal's exception out.
leave_raising_cleanup_error(w, e, rmOk) ==
    LET f == finalizer(w, WorktreePath, rmOk)
    IN  [w |-> release_tempdir(f.w),
         outcome |-> IF Raised(f.swallowed) THEN f.swallowed ELSE except_clause(e),
         cleanup |-> f.cleanup,
         events |-> (IF f.cleanup = "skipped" THEN <<>> ELSE <<"remove_worktree">>)
                    \o <<"rmtree">>]

\* leave with the temporary directory released before the finally clause runs.
leave_releasing_first(w, e, rmOk) ==
    LET f == finalizer(release_tempdir(w), WorktreePath, rmOk)
    IN  [w |-> f.w, outcome |-> except_clause(e), cleanup |-> f.cleanup,
         events |-> <<"rmtree">>
                    \o (IF f.cleanup = "skipped" THEN <<>> ELSE <<"remove_worktree">>)]

\* Leaving the try statement of create_session with exception e in flight
\* (NoExc: the with-body ended normally): except, finally, then the
\* TemporaryDirectory block ends.
leave(w, e, rmOk) ==
    LET f == finalizer(w, WorktreePath, rmOk)
    IN  [w |-> release_tempdir(f.w), outcome |-> except_clause(e), cleanup |-> f.cleanup,
         events |-> (IF f.cleanup = "skipped" THEN <<>> ELSE <<"remove_worktree">>)
                    \o <<"rmtree">>]

VARIABLES
    mgr,        \* SessionManager fields: dry_run, auto_commit, branch
    world,      \* git, the filesystem
    pc,         \* where create_session stands: "idle", "active" (at its yield), "done"
    sess,       \* the Session yielded: kind "none", "real", "mock", and its bindings
    tmp,        \* the TemporaryDirectory: "none", "allocated", "released"
    added,      \* what `git worktree add` answered and left behind, once it ran
    cb,         \* how the with-body ended: NoExc, or the exception it raised
    outcome,    \* what create_session's caller got: NoExc, or the exception
    cleanup,    \* the finally clause: "none", "skipped", "removed", "failed"
    events,     \* lifecycle steps in the order they happened
    tasks,      \* task operations run so far
    last,       \* the last task operation: its inputs and what it did
    call        \* the last direct call of a GitWrapper or OllamaClient method

vars == <<mgr, world, pc, sess, tmp, added, cb, outcome, cleanup, events, tasks, last, call>>

NoSession == [kind |-> "none", worktree_path |-> None, auto_commit |-> FALSE,
              mock_mode |-> FALSE]
NoArgs == [prompt |-> <<>>, target_file |-> <<>>, extra |-> <<>>, flag |-> FALSE,
           search_type |-> <<>>]
NoCall == [fn |-> None]
NoTask == [op |-> None, a |-> NoArgs, http |-> None, ret |-> <<>>, exc |-> NoExc,
           gen_exc |-> NoExc, requests |-> 0, sent |-> <<>>, context |-> <<>>, commit_msg |-> <<>>,
           appended |-> 0, commits |-> 0, has_changes |-> None, writes |-> 0,
           cmds0 |-> 0, log0 |-> <<>>, made0 |-> 0,
           file |-> None, swallowed |-> NoExc, status_exc |-> NoExc,
           dirty0 |-> FALSE, pre |-> TRUE]

Init ==
    /\ mgr \in [dry_run : BOOLEAN, auto_commit : BOOLEAN, branch : {<<>>, <<"feature">>}]
    \* the main checkout is clean or has uncommitted changes of the user's; the
    \* branch this run will ask for is new, or left behind by an earlier run
    /\ \E repo \in BOOLEAN, ignored \in BOOLEAN, ds \in SUBSET {Root}, reused \in BOOLEAN :
         world = [EmptyWorld(repo, ignored) EXCEPT
                    !.dirty = IF repo THEN ds ELSE {},
                    !.branches = IF repo /\ reused
                                 THEN @ \cup {IF mgr.branch # <<>> THEN mgr.branch
                                              ELSE generate_branch_name("oca", Now)}
                                 ELSE @]
    /\ pc = "idle"
    /\ sess = NoSession
    /\ tmp = "none"
    /\ added = NothingAdded
    /\ cb = NoExc
    /\ outcome = NoExc
    /\ cleanup = "none"
    /\ events = <<>>
    /\ tasks = 0
    /\ last = NoTask
    /\ call = NoCall

\* create_session in dry-run mode, up to its yield.
EnterDryRun ==
    /\ pc = "idle"
    /\ mgr.dry_run
    /\ pc' = "active"
    /\ sess' = [NoSession EXCEPT !.kind = "mock"]
    /\ events' = Append(events, "yield")
    /\ UNCHANGED <<mgr, world, tmp, added, cb, outcome, cleanup, tasks, last, call>>

\* create_session on something that is no repository.
EnterNotRepo ==
    /\ pc = "idle"
    /\ ~mgr.dry_run
    /\ LET g == is_git_repo(world, Root)
       IN  /\ ~g.ret
           /\ world' = g.w
           /\ outcome' = Exc("SessionError", <<"Not a Git repository. Run 'oca init' first.">>)
    /\ pc' = "done"
    /\ UNCHANGED <<mgr, sess, tmp, added, cb, cleanup, events, tasks, last, call>>

\* create_session from the repository check to its yield, or, when
\* create_worktree or a later constructor raises, to its end.
EnterSession ==
    /\ pc = "idle"
    /\ ~mgr.dry_run
    /\ \E out \in AddOutcomes, ctorOk \in BOOLEAN, rmOk \in BOOLEAN, mock \in BOOLEAN :
         LET g == is_git_repo(world, Root)
             branch_name == IF mgr.branch # <<>> THEN mgr.branch
                            ELSE generate_branch_name("oca", Now)
             c == create_worktree(g.w, Root, WorktreePath, branch_name, out)
             e == IF Raised(c.exc) THEN c.exc
                  ELSE IF ~ctorOk THEN Exc("Exception", <<"constructor failed">>)
                  ELSE NoExc
             l == leave(c.w, e, rmOk)
         IN  /\ g.ret
             /\ (Raised(c.exc) => ctorOk /\ ~mock)
             /\ (~ctorOk => ~mock)
             /\ (~Raised(e) => rmOk)
             /\ added' = IF WorktreePath \in g.w.paths \/ branch_name \in g.w.branches
                         THEN NothingAdded ELSE out
             /\ IF Raised(e)
                THEN /\ world' = l.w
                     /\ pc' = "done"
                     /\ tmp' = "released"
                     /\ outcome' = l.outcome
                     /\ cleanup' = l.cleanup
                     /\ events' = events \o <<"mkdtemp", "create_worktree">> \o l.events
                     /\ UNCHANGED sess
                ELSE /\ world' = c.w
                     /\ pc' = "active"
                     /\ tmp' = "allocated"
                     /\ sess' = [kind |-> "real", worktree_path |-> WorktreePath,
                                 auto_commit |-> mgr.auto_commit, mock_mode |-> mock]
                     /\ events' = events \o <<"mkdtemp", "create_worktree", "yield">>
                     /\ UNCHANGED <<outcome, cleanup>>
    /\ UNCHANGED <<mgr, cb, tasks, last, call>>

\* DoTask on a Session that a failed operation closes and rebinds.
DoTask_closing_on_error(op, a, e) ==
    /\ pc = "active"
    /\ tasks' = tasks + 1
    /\ IF sess.kind = "mock"
       THEN /\ last' = [NoTask EXCEPT !.op = op, !.a = a, !.ret = DryRunTask(op, a),
                                      !.cmds0 = Len(world.cmds), !.log0 = world.log,
                                      !.made0 = Len(world.commits)]
            /\ UNCHANGED world
       ELSE LET r == Task(op, world, sess, a, e)
            IN  /\ world' = r.w
                /\ last' = [op |-> op, a |-> a, http |-> e.http, ret |-> r.ret, exc |-> r.exc,
                            gen_exc |-> r.gen.exc, requests |-> r.gen.requests, sent |-> r.gen.sent,
                            context |-> r.context, commit_msg |-> r.commit_msg,
                            appended |-> r.log.appended, commits |-> r.log.commits,
                            has_changes |-> r.log.has_changes, writes |-> r.log.writes,
                            cmds0 |-> Len(world.cmds), log0 |-> world.log,
                            made0 |-> Len(world.commits),
                            file |-> IF op \in FileOps /\ a.target_file # <<>>
                                     THEN e.file ELSE None,
                            swallowed |-> r.log.swallowed, status_exc |-> r.log.status_exc,
                            dirty0 |-> sess.worktree_path \in world.dirty,
                            pre |-> IF op = "create_commit" THEN e.pre ELSE TRUE]
    /\ pc' = IF sess.kind = "real" /\ Raised(Task(op, world, sess, a, e).exc)
             THEN "closed" ELSE pc
    /\ sess' = IF sess.kind = "real" /\ Raised(Task(op, world, sess, a, e).exc)
               THEN [sess EXCEPT !.auto_commit = FALSE] ELSE sess
    /\ UNCHANGED <<mgr, tmp, added, cb, outcome, cleanup, events>>

\* One task operation on the yielded session, with arguments a in environment e.
DoTask(op, a, e) ==
    /\ pc = "active"
    /\ tasks' = tasks + 1
    /\ IF sess.kind = "mock"
       THEN /\ last' = [NoTask EXCEPT !.op = op, !.a = a, !.ret = DryRunTask(op, a),
                                      !.cmds0 = Len(world.cmds), !.log0 = world.log,
                                      !.made0 = Len(world.commits)]
            /\ UNCHANGED world
       ELSE LET r == Task(op, world, sess, a, e)
            IN  /\ world' = r.w
                /\ last' = [op |-> op, a |-> a, http |-> e.http, ret |-> r.ret, exc |-> r.exc,
                            gen_exc |-> r.gen.exc, requests |-> r.gen.requests, sent |-> r.gen.sent,
                            context |-> r.context, commit_msg |-> r.commit_msg,
                            appended |-> r.log.appended, commits |-> r.log.commits,
                            has_changes |-> r.log.has_changes, writes |-> r.log.writes,
                            cmds0 |-> Len(world.cmds), log0 |-> world.log,
                            made0 |-> Len(world.commits),
                            file |-> IF op \in FileOps /\ a.target_file # <<>>
                                     THEN e.file ELSE None,
                            swallowed |-> r.log.swallowed, status_exc |-> r.log.status_exc,
                            dirty0 |-> sess.worktree_path \in world.dirty,
                            pre |-> IF op = "create_commit" THEN e.pre ELSE TRUE]
    /\ UNCHANGED <<mgr, pc, sess, tmp, added, cb, outcome, cleanup, events>>

\* The inputs explored inside a managed session.
\* `oca commit` passes no message; every other subcommand passes its prompt.
BareArgs(op) == IF op = "create_commit" THEN NoArgs
                ELSE [NoArgs EXCEPT !.prompt = <<"prompt">>]
LifecycleEnvs ==
    { [file |-> "readable", scan |-> "found", pre |-> TRUE, http |-> h, log |-> le] :
        h \in HttpOutcomes \ {"ObjBlank", "ObjMissing"}, le \in CanonLogEnvs }

\* The caller runs a task operation inside the with-block.
TaskOp ==
    /\ tasks < MaxTasks
    /\ \E op \in Ops, e \in LifecycleEnvs :
         /\ (sess.kind = "mock" \/ e.http # "ObjText" \/ ~sess.auto_commit => e.log = AllOk)
         /\ (sess.kind = "mock" \/ sess.mock_mode => e.http = "ObjText")
         /\ DoTask(op, BareArgs(op), e)
    /\ UNCHANGED call

\* What the with-body can raise: the SessionError of its last task operation,
\* an exception of its own, or an interrupt.
CallbackExceptions ==
    (IF Raised(last.exc) THEN {last.exc} ELSE {})
        \cup {Exc("Exception", <<"callback failed">>), Exc("KeyboardInterrupt", <<>>)}

\* The with-body ends with e in flight (NoExc: normally) and create_session
\* runs from its yield to its end.
Exit(e, rmOk) ==
    /\ pc = "active"
    /\ cb' = e
    /\ pc' = "done"
    /\ IF sess.kind = "mock"
       THEN /\ outcome' = e
            /\ UNCHANGED <<world, tmp, cleanup, events, call>>
       ELSE LET l == leave(world, e, rmOk)
            IN  /\ world' = l.w
                /\ outcome' = l.outcome
                /\ cleanup' = l.cleanup
                /\ tmp' = "released"
                /\ events' = events \o l.events
    /\ UNCHANGED <<mgr, sess, added, tasks, last, call>>

CallbackReturns == \E rmOk \in BOOLEAN : (sess.kind = "mock" => rmOk) /\ Exit(NoExc, rmOk)

CallbackRaises ==
    \E e \in CallbackExceptions, rmOk \in BOOLEAN :
        (sess.kind = "mock" => rmOk) /\ Exit(e, rmOk)

Next ==
    \/ EnterDryRun
    \/ EnterNotRepo
    \/ EnterSession
    \/ TaskOp
    \/ CallbackReturns
    \/ CallbackRaises

Spec == Init /\ [][Next]_vars

\* ------------------------------------------- GitWrapper called by a client
Branches == {<<"feature">>, <<"other">>, generate_branch_name("oca", Now)}
Prefixes == {"oca", "test"}
Clocks ==
    {Now,
     [year |-> 2024, month |-> 3, day |-> 5, hour |-> 7, minute |-> 8, second |-> 9],
     [year |-> 2025, month |-> 12, day |-> 31, hour |-> 23, minute |-> 59, second |-> 59]}
managerVars == <<mgr, pc, sess, tmp, added, cb, outcome, cleanup, events, last>>

\* A GitWrapper bound to a repository that may already hold paths, worktrees,
\* branches and uncommitted changes.
GitInit ==
    /\ mgr = [dry_run |-> FALSE, auto_commit |-> FALSE, branch |-> <<>>]
    /\ \E ps \in SUBSET Paths, ws \in SUBSET Paths, ds \in SUBSET Paths,
          bs \in SUBSET Branches :
         /\ ws \subseteq ps
         /\ ds \subseteq ws
         /\ world = [EmptyWorld(TRUE, FALSE) EXCEPT !.paths = ps, !.worktrees = ws,
                                                    !.dirty = ds,
                                                    !.branches = @ \cup bs]
    /\ pc = "idle"
    /\ sess = NoSession
    /\ tmp = "none"
    /\ added = NothingAdded
    /\ cb = NoExc
    /\ outcome = NoExc
    /\ cleanup = "none"
    /\ events = <<>>
    /\ tasks = 0
    /\ last = NoTask
    /\ call = NoCall

GitCall(fn, args, r) ==
    /\ tasks < MaxCalls
    /\ tasks' = tasks + 1
    /\ world' = r.w
    /\ call' = [fn |-> fn, args |-> args, before |-> world, result |-> r]
    /\ UNCHANGED managerVars

CallCreateWorktree ==
    \E path \in Paths, branch \in Branches, out \in AddOutcomes :
        GitCall("create_worktree", [path |-> path, branch |-> branch],
                create_worktree(world, Root, path, branch, out))

CallRemoveWorktree ==
    \E path \in Paths, force \in BOOLEAN, envOk \in BOOLEAN :
        GitCall("remove_worktree", [path |-> path, force |-> force],
                remove_worktree(world, Root, path, force, envOk))

CallHasChanges ==
    \E cwd \in world.worktrees, envOk \in BOOLEAN :
        GitCall("has_changes", [cwd |-> cwd], has_changes(world, cwd, envOk))

CallCommit ==
    \E cwd \in world.worktrees, add_all \in BOOLEAN, addOk \in BOOLEAN, commitOk \in BOOLEAN :
        /\ (~add_all => addOk)
        /\ GitCall("commit", [cwd |-> cwd, add_all |-> add_all],
                   commit(world, cwd, <<"message">>, add_all, addOk, commitOk))

\* generate_branch_name reads the clock and nothing else.
CallGenerateBranchName ==
    \E prefix \in Prefixes, clock \in Clocks :
        GitCall("generate_branch_name", [prefix |-> prefix, clock |-> clock],
                [w |-> world, ret |-> generate_branch_name(prefix, clock)])

GitNext ==
    \/ CallGenerateBranchName
    \/ CallCreateWorktree
    \/ CallRemoveWorktree
    \/ CallHasChanges
    \/ CallCommit

GitSpec == GitInit /\ [][GitNext]_vars

\* -------------------------------------------- OllamaClient called by a client
Prompts == {<<"Fix it">>, <<"Explain">>}
Optionals == {<<>>, <<"S">>}

\* OllamaClient.__init__: mock_mode is read from the process environment.
GenInit ==
    /\ mgr = [dry_run |-> FALSE, auto_commit |-> FALSE, branch |-> <<>>]
    /\ world = EmptyWorld(TRUE, FALSE)
    /\ pc = "idle"
    /\ sess = NoSession
    /\ tmp = "none"
    /\ added = NothingAdded
    /\ cb = NoExc
    /\ outcome = NoExc
    /\ cleanup = "none"
    /\ events = <<>>
    /\ tasks = 0
    /\ last = NoTask
    /\ \E m \in BOOLEAN : call = [fn |-> "OllamaClient", mock_mode |-> m]

CallGenerate ==
    /\ \E prompt \in Prompts, system_prompt \in Optionals, context \in Optionals,
          http \in HttpOutcomes :
         call' = [fn |-> "generate", mock_mode |-> call.mock_mode, prompt |-> prompt,
                  system_prompt |-> system_prompt, context |-> context, http |-> http,
                  result |-> generate(call.mock_mode, prompt, system_prompt, context, http)]
    /\ UNCHANGED <<world, tasks>>
    /\ UNCHANGED managerVars

GenNext == CallGenerate

GenSpec == GenInit /\ [][GenNext]_vars

\* ------------------------------------------------ Session called by a client
\* A Session constructed directly on a worktree that is checked out, clean or
\* with uncommitted changes, and driven through its task operations with every
\* argument and every answer of the filesystem, git and the service.
TaskInit ==
    /\ mgr = [dry_run |-> FALSE, auto_commit |-> FALSE, branch |-> <<>>]
    /\ \E ignored \in BOOLEAN, ds \in SUBSET {WorktreePath} :
         world = [EmptyWorld(TRUE, ignored) EXCEPT !.paths = {WorktreePath},
                                                   !.worktrees = {WorktreePath},
                                                   !.branches = @ \cup {<<"feature">>},
                                                   !.dirty = ds]
    /\ pc = "active"
    /\ \E auto \in BOOLEAN, mock \in BOOLEAN :
         sess = [kind |-> "real", worktree_path |-> WorktreePath,
                 auto_commit |-> auto, mock_mode |-> mock]
    /\ tmp = "none"
    /\ added = NothingAdded
    /\ cb = NoExc
    /\ outcome = NoExc
    /\ cleanup = "none"
    /\ events = <<>>
    /\ tasks = 0
    /\ last = NoTask
    /\ call = NoCall

\* The arguments a client passes to a task operation.
TaskArgs(op) ==
    { [NoArgs EXCEPT !.prompt = p, !.target_file = f, !.extra = x, !.search_type = t] :
        p \in IF op = "create_commit" THEN {<<>>, <<"prompt">>} ELSE {<<"prompt">>},
        f \in IF op \in FileOps THEN {<<>>, <<"a.py">>} ELSE {<<>>},
        x \in {<<>>},
        t \in IF op = "search_code" THEN {<<>>, <<"function">>} ELSE {<<>>} }

\* The answers of the environment, one per case the operation can tell apart.
TaskEnvs(op, a) ==
    { [file |-> f, scan |-> sc, pre |-> pre, http |-> h, log |-> le] :
        f \in IF op \in FileOps /\ a.target_file # <<>> THEN FileStates ELSE {"missing"},
        sc \in IF op = "search_code" THEN {"found", "none", "error"} ELSE {"found"},
        pre \in IF op = "create_commit" THEN BOOLEAN ELSE {TRUE},
        h \in IF sess.mock_mode THEN {"ObjText"} ELSE {"ObjText", "Timeout"},
        le \in IF sess.auto_commit THEN CanonLogEnvs ELSE {AllOk} }

\* The client calls a task operation; `call` keeps how the one before ended.
SessionOp ==
    /\ tasks < MaxOps
    /\ \E op \in Ops : \E a \in TaskArgs(op) : \E e \in TaskEnvs(op, a) :
         /\ (e.http = "Timeout" \/ e.file = "inaccessible" => e.log = AllOk)
         /\ DoTask(op, a, e)
    /\ call' = [fn |-> last.op, exc |-> last.exc]

TaskNext == SessionOp

TaskSpec == TaskInit /\ [][TaskNext]_vars

\* ------------------------------------- create_session in concurrent processes
\* Two processes run create_session on one repository, each with its own
\* SessionManager built from the same options.  The variables hold one value
\* per process; `call` is the frame of create_session: its locals.  Every git
\* command, and mkdtemp, is one step; `events` lists who issued which command.
Procs == {1, 2}
TempDirs == {"tmp/oca-session-1", "tmp/oca-session-2"}
SecondPath == "tmp/oca-session-2/worktree"
WorktreeIn(dir) == IF dir = "tmp/oca-session-1" THEN WorktreePath ELSE SecondPath
NextSecond == [Now EXCEPT !.second = 1]
NoFrame == [branch_name |-> <<>>, temp_dir |-> None, worktree_path |-> None]

\* mkdtemp answering with any name, taken or not.
mkdtemp_any(taken) == TempDirs

\* tempfile.mkdtemp: a directory that did not exist.
mkdtemp(taken) == TempDirs \ taken

\* The temporary directories that exist.
Allocated == { call[p].temp_dir : p \in { q \in Procs : tmp[q] = "allocated" } }

\* The commands a step of process s added to the command log.
Issued(s, w) ==
    [i \in 1..(Len(w.cmds) - Len(world.cmds)) |->
        [proc |-> s, cmd |-> w.cmds[Len(world.cmds) + i]]]

ConcInit ==
    /\ mgr \in [dry_run : {FALSE}, auto_commit : {TRUE}, branch : {<<>>, <<"feature">>}]
    /\ world = EmptyWorld(TRUE, FALSE)
    /\ pc = [s \in Procs |-> "idle"]
    /\ sess = [s \in Procs |-> NoSession]
    /\ tmp = [s \in Procs |-> "none"]
    /\ added = [s \in Procs |-> NothingAdded]
    /\ cb = [s \in Procs |-> NoExc]
    /\ outcome = [s \in Procs |-> NoExc]
    /\ cleanup = [s \in Procs |-> "none"]
    /\ events = <<>>
    /\ tasks = 0
    /\ last = NoTask
    /\ call = [s \in Procs |-> NoFrame]

\* is_git_repo, then the branch name from the option or from the clock.
ConcBegin(s) ==
    /\ pc[s] = "idle"
    /\ \E clock \in {Now, NextSecond} :
         LET g == is_git_repo(world, Root)
         IN  /\ world' = g.w
             /\ events' = events \o Issued(s, g.w)
             /\ call' = [call EXCEPT ![s].branch_name =
                            IF mgr.branch # <<>> THEN mgr.branch
                            ELSE generate_branch_name("oca", clock)]
    /\ pc' = [pc EXCEPT ![s] = "named"]
    /\ UNCHANGED <<mgr, sess, tmp, added, cb, outcome, cleanup, tasks, last>>

\* with tempfile.TemporaryDirectory(prefix="oca-session-") as temp_dir
ConcMakeTempDir(s) ==
    /\ pc[s] = "named"
    /\ \E dir \in mkdtemp(Allocated) :
         call' = [call EXCEPT ![s].temp_dir = dir, ![s].worktree_path = WorktreeIn(dir)]
    /\ tmp' = [tmp EXCEPT ![s] = "allocated"]
    /\ pc' = [pc EXCEPT ![s] = "tempdir"]
    /\ UNCHANGED <<mgr, world, sess, added, cb, outcome, cleanup, events, tasks, last>>

\* except, finally and the release of the temporary directory, for process s.
ConcLeave(s, w, e, rmOk) ==
    LET path == call[s].worktree_path
        f == finalizer(w, path, rmOk)
    IN  /\ world' = release_tempdir_of(f.w, path)
        /\ events' = events \o Issued(s, f.w)
        /\ outcome' = [outcome EXCEPT ![s] = except_clause(e)]
        /\ cleanup' = [cleanup EXCEPT ![s] = f.cleanup]
        /\ tmp' = [tmp EXCEPT ![s] = "released"]
        /\ pc' = [pc EXCEPT ![s] = "done"]

\* create_worktree and the constructors, up to the yield; or, on failure, to
\* the end of create_session.
ConcCreateWorktree(s) ==
    /\ pc[s] = "tempdir"
    /\ \E out \in AddOutcomes, rmOk \in BOOLEAN :
         LET f == call[s]
             c == create_worktree(world, Root, f.worktree_path, f.branch_name, out)
         IN  /\ added' = [added EXCEPT ![s] =
                             IF f.worktree_path \in world.paths \/ f.branch_name \in world.branches
                             THEN NothingAdded ELSE out]
             /\ IF Raised(c.exc)
                THEN /\ ConcLeave(s, c.w, c.exc, rmOk)
                     /\ UNCHANGED sess
                ELSE /\ rmOk
                     /\ world' = c.w
                     /\ events' = events \o Issued(s, c.w)
                     /\ sess' = [sess EXCEPT ![s] =
                                    [kind |-> "real", worktree_path |-> f.worktree_path,
                                     auto_commit |-> mgr.auto_commit, mock_mode |-> TRUE]]
                     /\ pc' = [pc EXCEPT ![s] = "active"]
                     /\ UNCHANGED <<tmp, outcome, cleanup>>
    /\ UNCHANGED <<mgr, cb, tasks, last, call>>

\* The with-body of process s runs a task operation on its session.
ConcTask(s) ==
    /\ pc[s] = "active"
    /\ tasks < MaxOps
    /\ tasks' = tasks + 1
    /\ \E le \in {AllOk, [AllOk EXCEPT !.commit = FALSE]} :
         LET e == [file |-> "readable", scan |-> "found", pre |-> TRUE,
                   http |-> "ObjText", log |-> le]
             r == Task("explain", world, sess[s], BareArgs("explain"), e)
         IN  /\ world' = r.w
             /\ events' = events \o Issued(s, r.w)
    /\ UNCHANGED <<mgr, pc, sess, tmp, added, cb, outcome, cleanup, last, call>>

\* The with-body of process s ends, normally or raising.
ConcExit(s) ==
    /\ pc[s] = "active"
    /\ \E e \in {NoExc, Exc("Exception", <<"callback failed">>)}, rmOk \in BOOLEAN :
         /\ cb' = [cb EXCEPT ![s] = e]
         /\ ConcLeave(s, world, e, rmOk)
    /\ UNCHANGED <<mgr, sess, added, tasks, last, call>>

ConcNext ==
    \E s \in Procs :
        \/ ConcBegin(s)
        \/ ConcMakeTempDir(s)
        \/ ConcCreateWorktree(s)
        \/ ConcTask(s)
        \/ ConcExit(s)

ConcSpec == ConcInit /\ [][ConcNext]_vars

\* ------------------------------------------------------ the CLI subcommands
\* One `oca <subcommand>` process: SessionManager(...), then
\*     try: with create_session() as session: result = session.<op>(...); echo
\*     except Exception as e: echo(err=True); raise click.Abort()
\* `call` is the process: subcommand, exit code, output and error stream.
\* The ballot cross that opens the error line is written X.
Subcommand(op) ==
    CASE op = "explain" -> "explain"
      [] op = "fix" -> "fix"
      [] op = "refactor" -> "refactor"
      [] op = "generate_tests" -> "test"
      [] op = "create_commit" -> "commit"
      [] op = "search_code" -> "search"

NoProcess == [fn |-> "cli", subcommand |-> None, exit_code |-> None,
              stdout |-> <<>>, stderr |-> <<>>]

\* A subcommand that reports the error on the output stream and returns.
end_of_command_reporting_only(e, result) ==
    IF Raised(e)
    THEN [exit_code |-> "0", stdout |-> <<"X Error: ">> \o e.msg, stderr |-> <<>>]
    ELSE [exit_code |-> "0", stdout |-> result, stderr |-> <<>>]

\* What the subcommand leaves behind: e is what left the with statement.
\* click turns Abort into "Aborted!" on the error stream and exit code 1.
end_of_command(e, result) ==
    IF Raised(e)
    THEN [exit_code |-> "1", stdout |-> <<>>,
          stderr |-> <<"X Error: ">> \o e.msg \o <<"\n", "Aborted!">>]
    ELSE [exit_code |-> "0", stdout |-> result, stderr |-> <<>>]

CliInit ==
    /\ mgr \in [dry_run : BOOLEAN, auto_commit : BOOLEAN, branch : {<<>>, <<"feature">>}]
    /\ \E repo \in BOOLEAN, ignored \in BOOLEAN : world = EmptyWorld(repo, ignored)
    /\ pc = "idle"
    /\ sess = NoSession
    /\ tmp = "none"
    /\ added = NothingAdded
    /\ cb = NoExc
    /\ outcome = NoExc
    /\ cleanup = "none"
    /\ events = <<>>
    /\ tasks = 0
    /\ last = NoTask
    /\ call = NoProcess

\* result = session.<op>(...): the one task operation of the subcommand.
CliTask ==
    /\ tasks = 0
    /\ \E op \in Ops, e \in LifecycleEnvs :
         /\ (sess.kind = "mock" \/ e.http # "ObjText" \/ ~sess.auto_commit => e.log = AllOk)
         /\ (sess.kind = "mock" \/ sess.mock_mode => e.http = "ObjText")
         /\ DoTask(op, BareArgs(op), e)
         /\ call' = [call EXCEPT !.subcommand = Subcommand(op)]

\* The with-body ends: with the task's exception, or after echoing the result.
CliBodyEnds ==
    /\ tasks = 1
    /\ \E rmOk \in BOOLEAN :
         /\ (sess.kind = "mock" => rmOk)
         /\ Exit(IF Raised(last.exc) THEN last.exc ELSE NoExc, rmOk)

\* The process ends.
CliExit ==
    /\ pc = "done"
    /\ call.exit_code = None
    /\ LET r == end_of_command(outcome, last.ret)
       IN  call' = [call EXCEPT !.exit_code = r.exit_code, !.stdout = r.stdout,
                                !.stderr = r.stderr]
    /\ UNCHANGED <<mgr, world, pc, sess, tmp, added, cb, outcome, cleanup, events, tasks, last>>

CliNext ==
    \/ EnterDryRun
    \/ EnterNotRepo
    \/ EnterSession
    \/ CliTask
    \/ CliBodyEnds
    \/ CliExit

CliSpec == CliInit /\ [][CliNext]_vars

\* ------------------------------------------------ SessionManager.init_project
\* The project directory: whether it is a repository, whether .oca/ is there,
\* what .oca/config.yaml holds (None: no such file; "empty": created and
\* nothing dumped; else the model it names), and .gitignore ("absent",
\* "without" the line .oca/, "with" it).
Project(w) == [isRepo |-> w.isRepo, ocaDir |-> w.ocaDir, config |-> w.config,
               gitignore |-> w.gitignore]
DefaultModel == "codellama"
InitEnvs ==
    [init : BOOLEAN, mkdir : BOOLEAN, config : {"ok", "open_fails", "dump_fails"},
     gitignore : BOOLEAN]

\* GitWrapper.init_repo
init_repo(w, cwd, ok) ==
    LET r == _run_git(w, cwd, <<"init">>, ok)
    IN  [w |-> IF ok THEN [r.w EXCEPT !.isRepo = TRUE] ELSE r.w, exc |-> r.exc]

\* init_project writing the configuration whether or not there is one.
init_project_overwriting(w, dry_run, model, env) ==
    IF dry_run THEN [w |-> w, exc |-> NoExc]
    ELSE
      LET g == is_git_repo(w, Root)
          i == IF g.ret THEN [w |-> g.w, exc |-> NoExc] ELSE init_repo(g.w, Root, env.init)
      IN  IF Raised(i.exc) THEN i
          ELSE IF ~env.mkdir THEN [w |-> i.w, exc |-> Exc("OSError", <<"mkdir failed">>)]
          ELSE [w |-> [i.w EXCEPT !.ocaDir = TRUE,
                                  !.config = IF model # None THEN model ELSE DefaultModel],
                exc |-> NoExc]

\* SessionManager.init_project(model): [w, exc]
init_project(w, dry_run, model, env) ==
    IF dry_run THEN [w |-> w, exc |-> NoExc]
    ELSE
      LET g == is_git_repo(w, Root)
          i == IF g.ret THEN [w |-> g.w, exc |-> NoExc] ELSE init_repo(g.w, Root, env.init)
          w1 == [i.w EXCEPT !.ocaDir = TRUE]
          w2 == IF w1.config # None THEN w1
                ELSE IF env.config = "open_fails" THEN w1
                ELSE IF env.config = "dump_fails" THEN [w1 EXCEPT !.config = "empty"]
                ELSE [w1 EXCEPT !.config = IF model # None THEN model ELSE DefaultModel]
      IN  IF Raised(i.exc) THEN i
          ELSE IF ~env.mkdir THEN [w |-> i.w, exc |-> Exc("OSError", <<"mkdir failed">>)]
          ELSE IF w1.config = None /\ env.config # "ok"
               THEN [w |-> w2, exc |-> Exc("OSError", <<"config not written">>)]
          ELSE IF w2.gitignore = "without"
               THEN IF env.gitignore
                    THEN [w |-> [w2 EXCEPT !.gitignore = "with"], exc |-> NoExc]
                    ELSE [w |-> w2, exc |-> Exc("OSError", <<".gitignore not written">>)]
          ELSE [w |-> w2, exc |-> NoExc]

\* A directory in any state an earlier life may have left it in.
InitInit ==
    /\ mgr \in [dry_run : BOOLEAN, auto_commit : {TRUE}, branch : {<<>>}]
    /\ \E repo \in BOOLEAN, dir \in BOOLEAN, cfg \in {None, "custom"},
          gi \in {"absent", "without", "with"} :
         /\ (cfg # None => dir)
         /\ world = [isRepo |-> repo, ocaDir |-> dir, config |-> cfg, gitignore |-> gi,
                      cmds |-> <<>>]
    /\ pc = "idle"
    /\ sess = NoSession
    /\ tmp = "none"
    /\ added = NothingAdded
    /\ cb = NoExc
    /\ outcome = NoExc
    /\ cleanup = "none"
    /\ events = <<>>
    /\ tasks = 0
    /\ last = NoTask
    /\ call = [fn |-> None, completed |-> FALSE]

\* `oca init [--model M]`; `call` keeps the directory as it was before the
\* run and whether the run before this one completed.
RunInitProject ==
    /\ tasks < MaxRuns
    /\ tasks' = tasks + 1
    /\ \E model \in {None, "llama2"}, env \in InitEnvs :
         LET r == init_project(world, mgr.dry_run, model, env)
         IN  /\ world' = r.w
             /\ call' = [fn |-> "init_project", model |-> model, before |-> world,
                          exc |-> r.exc, completed |-> ~Raised(r.exc),
                          after_completed |-> call.completed]
    /\ UNCHANGED managerVars

InitNext == RunInitProject

InitSpec == InitInit /\ [][InitNext]_vars

\* ===================================================================== claims
\* The lifecycle claims speak of create_session outside dry-run mode, which
\* bypasses the repository check, the worktree and the teardown altogether.

IsRemove(c) == Len(c.args) >= 2 /\ SubSeq(c.args, 1, 2) = <<"worktree", "remove">>
RemoveCmds == SelectSeq(world.cmds, IsRemove)
ForcedRemove == [cwd |-> Root, args |-> <<"worktree", "remove", WorktreePath, "--force">>]
\* 'oca/session-20240101-120000'
Oca20240101_120000 ==
    <<"oca", "/session-", "2", "0", "2", "4", "0", "1", "0", "1", "-", "1", "2", "0", "0", "0", "0">>
BranchName == IF mgr.branch # <<>> THEN mgr.branch ELSE Oca20240101_120000
Wrapped(msg) == Exc("SessionError", <<"Failed to create session: ">> \o msg)

\* C1: a worktree that create_session created is torn down on every exit path:
\* when create_session has finished, remove_worktree(worktree_path, force=True)
\* has been attempted, and where git carried it out the worktree is gone, dirty
\* or not.
C1_CreatedWorktreeTornDown ==
    pc = "done" /\ added.ok =>
        /\ RemoveCmds = <<ForcedRemove>>
        /\ cleanup \in {"removed", "failed"}
        /\ (cleanup = "removed" => WorktreePath \notin world.worktrees)

\* C1 witness: a session whose worktree was dirty at its end (log entry written,
\* commit failed) and whose forced removal went through.
C1_Witness ==
    /\ pc = "done" /\ added.ok /\ cleanup = "removed"
    /\ last.appended = 1 /\ last.has_changes = "True" /\ world.commits = <<>>
    /\ tasks = 1

\* C2: remove_worktree is called exactly once when the with-body raises,
\* exactly once when create_worktree fails leaving the worktree path behind,
\* and never twice for one session.
C2_RemoveCalledOnce ==
    /\ Len(RemoveCmds) <= 1
    /\ (pc = "done" /\ sess.kind = "real" /\ Raised(cb) => Len(RemoveCmds) = 1)
    /\ (pc = "done" /\ ~added.ok /\ added.path => Len(RemoveCmds) = 1)

\* C2 witness: create_worktree failed with the path left on disk, and the one
\* removal was issued.
C2_Witness ==
    pc = "done" /\ ~added.ok /\ added.path /\ RemoveCmds = <<ForcedRemove>>

\* C3: what the caller observes does not depend on the cleanup: a with-body
\* that ended normally gives a normal exit, one that raised gives the error
\* derived from its own exception, whether or not remove_worktree failed; and
\* a raising with-body still gets its cleanup attempt.
C3_CleanupNeverDecidesOutcome ==
    pc = "done" /\ sess.kind = "real" =>
        /\ (~Raised(cb) => outcome = NoExc)
        /\ (cb.type \in ExceptionTypes => outcome = Wrapped(cb.msg))
        /\ (Raised(cb) /\ cb.type \notin ExceptionTypes => outcome = cb)
        /\ (Raised(cb) => RemoveCmds = <<ForcedRemove>>)

\* C3 witness: a task operation's SessionError left the with-body and the
\* removal failed.
C3_Witness ==
    pc = "done" /\ sess.kind = "real" /\ cb.type = "SessionError" /\ cleanup = "failed"

\* C4: on something that is no Git repository create_session raises
\* SessionError "Not a Git repository..." having done nothing but the
\* repository check: no temporary directory, no worktree command, no worktree,
\* branch or directory, no session, no cleanup.
C4_NotARepository ==
    ~mgr.dry_run /\ ~world.isRepo =>
        /\ pc \in {"idle", "done"}
        /\ pc = "done" =>
             /\ outcome = Exc("SessionError", <<"Not a Git repository. Run 'oca init' first.">>)
             /\ world.cmds = <<[cwd |-> Root, args |-> <<"rev-parse", "--git-dir">>]>>
             /\ tmp = "none" /\ events = <<>> /\ cleanup = "none" /\ sess = NoSession
             /\ world.paths = {} /\ world.worktrees = {} /\ world.branches = {<<"main">>}

C4_Witness == pc = "done" /\ ~mgr.dry_run /\ ~world.isRepo

\* create_session ended because create_worktree raised.
CreateWorktreeFailed ==
    pc = "done" /\ ~mgr.dry_run /\ world.isRepo /\ ~added.ok /\ cleanup # "none"
        /\ world.cmds # <<>>
AddCommandFailed ==
    <<"Git command failed: git", "worktree", "add", "-b">> \o BranchName \o <<WorktreePath>>

\* C5 as claimed: when create_worktree fails, create_session raises
\* SessionError "Failed to create session: " + the underlying text, and no
\* worktree is left mounted.
C5_NoWorktreeLeftMounted ==
    CreateWorktreeFailed =>
        /\ outcome = Wrapped(AddCommandFailed)
        /\ WorktreePath \notin world.worktrees

\* C5 as amended: when create_worktree fails, create_session raises
\* SessionError "Failed to create session: " + the underlying text; nothing is
\* left on disk; if the failed command left the path behind the removal is
\* attempted once, and a worktree stays registered only when that removal
\* failed too.
C5_FailureSurfacesCleanupAttempted ==
    CreateWorktreeFailed =>
        /\ outcome = Wrapped(AddCommandFailed)
        /\ IsPrefix(<<"Failed to create session: ">>, outcome.msg)
        /\ WorktreePath \notin world.paths
        /\ (added.path => RemoveCmds = <<ForcedRemove>>)
        /\ (WorktreePath \in world.worktrees => added.mounted /\ cleanup = "failed")

\* C5 witness: the failing command left a registered worktree and the cleanup
\* removed it.
C5_Witness ==
    CreateWorktreeFailed /\ added.mounted /\ cleanup = "removed"
        /\ WorktreePath \notin world.worktrees

\* The git commands the last task operation issued.
TaskCmds == SubSeq(world.cmds, last.cmds0 + 1, Len(world.cmds))
IsStage(c) == c.args = <<"add", ".">>
IsCommit(c) == Len(c.args) >= 2 /\ SubSeq(c.args, 1, 2) = <<"commit", "-m">>
AfterRealTask == pc = "active" /\ sess.kind = "real" /\ last.op # None

C7_DryRunDoesNothing ==
    mgr.dry_run =>
        /\ world.cmds = <<>> /\ world.paths = {} /\ world.worktrees = {}
        /\ world.log = <<>> /\ world.commits = <<>>
        /\ tmp = "none" /\ cleanup = "none"
        /\ pc = "active" => sess.kind = "mock"
        /\ last.op # None =>
             /\ last.ret # <<>>
             /\ IsPrefix(<<"DRY RUN: ">>, last.ret)
             /\ ~Raised(last.exc)
             /\ last.requests = 0 /\ last.writes = 0

\* C7 witness: every one of the six operations is run on the stand-in.
C7_Witness ==
    mgr.dry_run /\ pc = "active" /\ last.op = "create_commit" /\ tasks = 2

\* The error prefix the claim gives each task operation.
ClaimedPrefix(op) ==
    CASE op = "explain" -> "Failed to generate explanation"
      [] op = "fix" -> "Failed to generate fix"
      [] op = "refactor" -> "Failed to generate refactoring"
      [] op = "generate_tests" -> "Failed to generate tests"
      [] op = "create_commit" -> "Failed to generate commit message"
      [] op = "search_code" -> "Failed to perform search"

\* C8: when generate raises OllamaError the task operation raises
\* SessionError, its message the task's own prefix followed by the original
\* error text.
C8_TaskSpecificPrefix ==
    sess.kind = "real" /\ last.op # None /\ Raised(last.gen_exc) =>
        /\ last.gen_exc.type = "OllamaError"
        /\ last.exc = Exc("SessionError", <<ClaimedPrefix(last.op), ": ">> \o last.gen_exc.msg)

\* C8 witness: search_code after a timeout of the service.
C8_Witness ==
    sess.kind = "real" /\ last.op = "search_code" /\ last.http = "Timeout"
        /\ last.exc.type = "SessionError"

\* C9: create_worktree on a path that exists raises GitError "Worktree path
\* already exists", issues no git command and leaves everything as it was.
C9_ExistingPathRefused ==
    call.fn = "create_worktree" /\ call.args.path \in call.before.paths =>
        /\ call.result.exc =
             Exc("GitError", <<"Worktree path already exists: ", call.args.path>>)
        /\ world.cmds = call.before.cmds
        /\ world = call.before

\* C9 witness: the call on an existing path, after an earlier call had issued
\* a command.
C9_Witness ==
    /\ call.fn = "create_worktree" /\ call.args.path \in call.before.paths
    /\ call.result.exc.type = "GitError" /\ Len(world.cmds) = 1

\* C10: a successful answer whose JSON body lacks 'response' makes generate
\* return the empty string without raising.
C10_MissingFieldGivesEmptyString ==
    call.fn = "generate" /\ ~call.mock_mode /\ call.http = "ObjMissing" =>
        /\ ~Raised(call.result.exc)
        /\ call.result.ret = <<>>

IsSuffix(x, s) == Len(x) <= Len(s) /\ SubSeq(s, Len(s) - Len(x) + 1, Len(s)) = x
\* 'System: S' + blank line + 'User: P', or the bare P.
PromptBlock(P, S) ==
    IF S # <<>> THEN <<"System: ">> \o S \o <<"\n\n", "User: ">> \o P ELSE P

\* C11: the text generate transmits ends with the block ('System: S', blank
\* line, 'User: P' when S is given, the bare P otherwise); with a context C,
\* C and a blank line come immediately before the block (after the label
\* 'Context:' the client puts in front), and without C the text is the block:
\* with neither S nor C it is P.  One request carries it.
C11_ContextThenSystemThenUser ==
    call.fn = "generate" /\ ~call.mock_mode =>
        LET P == call.prompt
            S == call.system_prompt
            C == call.context
            sent == call.result.sent
        IN  /\ call.result.requests = 1
            /\ IsSuffix(PromptBlock(P, S), sent)
            /\ (C # <<>> => /\ IsSuffix(C \o <<"\n\n">> \o PromptBlock(P, S), sent)
                            /\ sent = <<"Context:\n">> \o C \o <<"\n\n">> \o PromptBlock(P, S))
            /\ (C = <<>> => sent = PromptBlock(P, S))
            /\ (C = <<>> /\ S = <<>> => sent = P)

\* C11 witness: a request with both a system prompt and a context.
C11_Witness ==
    /\ call.fn = "generate" /\ ~call.mock_mode
    /\ call.system_prompt # <<>> /\ call.context # <<>>
    /\ call.result.sent = <<"Context:\n", "S", "\n\n", "System: ", "S", "\n\n", "User: ", "Fix it">>

\* The git commands the last direct GitWrapper call issued.
CallCmds == SubSeq(world.cmds, Len(call.before.cmds) + 1, Len(world.cmds))
StageAll(cwd) == [cwd |-> cwd, args |-> <<"add", ".">>]
CommitCmd(cwd) == [cwd |-> cwd, args |-> <<"commit", "-m", "message">>]
StageFailed == Exc("GitError", <<"Git command failed: git", "add", ".">>)

\* C12: commit(message, add_all=True) issues stage-all and then commit, two
\* commands and no more; commit(message, add_all=False) issues the commit
\* alone; when stage-all fails the call raises its GitError with the commit
\* command never issued.
C12_StageThenCommit ==
    call.fn = "commit" =>
        LET cwd == call.args.cwd
        IN  /\ (~call.args.add_all => CallCmds = <<CommitCmd(cwd)>>)
            /\ (call.args.add_all /\ call.result.exc # StageFailed =>
                    CallCmds = <<StageAll(cwd), CommitCmd(cwd)>>)
            /\ (call.args.add_all /\ call.result.exc = StageFailed =>
                    CallCmds = <<StageAll(cwd)>>)
            /\ (CallCmds = <<StageAll(cwd)>> => call.result.exc = StageFailed)

\* C12 witness: stage-all then commit on a dirty worktree, the commit made.
C12_Witness ==
    /\ call.fn = "commit" /\ call.args.add_all
    /\ CallCmds = <<StageAll(call.args.cwd), CommitCmd(call.args.cwd)>>
    /\ Len(world.commits) = Len(call.before.commits) + 1

\* C13: generate_branch_name(prefix) returns '<prefix>/session-' followed by
\* the eight digits of the date, '-', and the six digits of the time of the
\* clock reading, zero-padded ('oca' at 2024-01-01T12:00:00 gives
\* 'oca/session-20240101-120000'); it issues no git command, changes nothing,
\* and returns the name whether or not such a branch exists.
C13_BranchNameFormat ==
    call.fn = "generate_branch_name" =>
        LET c == call.args.clock
            name == call.result.ret
        IN  /\ name = <<call.args.prefix, "/session-">>
                         \o Pad(c.year, 4) \o Pad(c.month, 2) \o Pad(c.day, 2) \o <<"-">>
                         \o Pad(c.hour, 2) \o Pad(c.minute, 2) \o Pad(c.second, 2)
            /\ Len(name) = 2 + 8 + 1 + 6
            /\ (call.args.prefix = "oca" /\ c = Now => name = Oca20240101_120000)
            /\ world = call.before

\* C13 witness: the name generated is that of a branch the repository
\* already holds, after an earlier call issued a git command.
C13_Witness ==
    /\ call.fn = "generate_branch_name"
    /\ call.result.ret = Oca20240101_120000
    /\ call.result.ret \in world.branches
    /\ Len(world.cmds) = 1

\* The last task operation reached its call of the generation client.
GenerateCalled == last.requests = 1 \/ (sess.mock_mode /\ last.ret # <<>>)

\* C14: the file-context lookup never fails a task operation: whatever is at
\* the target path, the operation goes on to call the generation client and
\* ends with the response or with the SessionError of a failed generation;
\* the context is 'File: <name>' and the file's text for a readable file and
\* empty in every other case.
C14_FileContextNeverFails ==
    sess.kind = "real" /\ last.op \in FileOps =>
        /\ GenerateCalled
        /\ last.exc.type \in {"none", "SessionError"}
        /\ (Raised(last.exc) => Raised(last.gen_exc))
        /\ last.context = IF last.file = "readable"
                          THEN <<"File: ">> \o last.a.target_file \o <<"\n">> \o FileText
                          ELSE <<>>

\* C15: failures are swallowed only by the file-context read and by the
\* teardown's cleanup: a session-log write, a stage or commit, or a status
\* query that fails during a task operation reaches the operation's caller as
\* an error.
C15_LogFailuresReachCaller ==
    sess.kind = "real" /\ last.op # None =>
        /\ (Raised(last.swallowed) => Raised(last.exc))
        /\ (Raised(last.status_exc) => Raised(last.exc))

\* C16: outside mock mode generate either returns a string or raises
\* OllamaError: a connection failure, a timeout, a non-success status, any
\* other request failure and an unparsable body each raise OllamaError, and so
\* does a body that parses but is no object or holds a non-string 'response';
\* no other exception type leaves generate.
C16_StringOrOllamaError ==
    call.fn = "generate" /\ ~call.mock_mode =>
        /\ call.result.exc.type \in {"none", "OllamaError"}
        /\ (call.http \in {"ConnectionError", "Timeout", "HTTPError", "RequestException",
                           "InvalidJSON", "ObjNonString", "NotAnObject"}
                => call.result.exc.type = "OllamaError")
        /\ (call.http \in {"ObjText", "ObjBlank", "ObjMissing"} => ~Raised(call.result.exc))
        /\ call.result.requests = 1

\* C16 witness: a 200 answer whose 'response' is not a string: the
\* AttributeError of .strip() leaves generate as OllamaError.
C16_Witness ==
    /\ call.fn = "generate" /\ ~call.mock_mode /\ call.http = "ObjNonString"
    /\ call.result.exc = Exc("OllamaError", <<"Unexpected error: ", "e">>)

\* C17: teardown removes the checkout only: the branch `git worktree add -b`
\* created is in the branch list from then on, also after create_session has
\* ended, normally or with an error; main stays; and no git command issued by
\* the session manager or the session is a branch command.
C17_BranchSurvivesTeardown ==
    /\ (added.branch => BranchName \in world.branches)
    /\ <<"main">> \in world.branches
    /\ \A i \in 1..Len(world.cmds) : world.cmds[i].args[1] # "branch"

\* C17 witness: a session that ended with an error, its worktree removed, its
\* branch still there.
C17_Witness ==
    /\ pc = "done" /\ added.ok /\ Raised(outcome) /\ cleanup = "removed"
    /\ WorktreePath \notin world.worktrees
    /\ BranchName \in world.branches

\* Positions of a lifecycle step in `events`.
Positions(ev) == { i \in 1..Len(events) : events[i] = ev }

\* C19: on every exit path of create_session that allocated a temporary
\* directory, the directory is released, once and as the last step, whether
\* setup, the with-body or the cleanup failed; the worktree removal, attempted
\* whenever the worktree path was there, comes before the release.
C19_RemovalBeforeRelease ==
    /\ (tmp = "allocated" => pc = "active")
    /\ (pc = "done" /\ tmp # "none" =>
            /\ tmp = "released"
            /\ Positions("mkdtemp") = {1}
            /\ Positions("rmtree") = {Len(events)}
            /\ \A i \in Positions("remove_worktree") : i < Len(events)
            /\ Cardinality(Positions("remove_worktree")) = Len(RemoveCmds)
            /\ (added.path => Positions("remove_worktree") # {})
            /\ WorktreePath \notin world.paths)

\* C19 witness: the with-body raised, the removal failed, and the directory
\* was released after it.
C19_Witness ==
    /\ pc = "done" /\ Raised(cb) /\ cleanup = "failed" /\ tmp = "released"
    /\ events = <<"mkdtemp", "create_worktree", "yield", "remove_worktree", "rmtree">>

\* C20: a Session is Ready between task operations.  A task operation leaves
\* the Session where it was and its bindings (worktree path, auto-commit flag,
\* generation client) as they were, whether it returned or raised; and on a
\* Session that is there each of the six operations can be invoked, whatever
\* ran before.
C20_ReadyBetweenOperations ==
    /\ [](pc = "active" /\ sess.kind = "real" /\ tasks < MaxOps =>
            \A op \in Ops : ENABLED (\E a \in TaskArgs(op) : \E e \in TaskEnvs(op, a) :
                                        DoTask(op, a, e)))
    /\ [][tasks' = tasks + 1 => pc' = pc /\ sess' = sess]_vars
    /\ [](pc = "active" /\ sess.kind = "real" /\ sess.worktree_path = WorktreePath)

\* C20 witness: explain returns on a Session whose search_code had just raised
\* SessionError.
C20_Witness ==
    /\ tasks = 2 /\ pc = "active"
    /\ call.fn = "search_code" /\ call.exc.type = "SessionError"
    /\ last.op = "explain" /\ ~Raised(last.exc) /\ last.ret # <<>>

\* Process s is at its yield: past a successful create_worktree, not torn down.
Active(s) == pc[s] = "active"

\* A command of process s stays with s: it runs in the repository root or in
\* the worktree of s, and a worktree command names the path and branch of s.
OwnCommand(s, cmd) ==
    LET f == call[s]
    IN  /\ cmd.cwd \in {Root, f.worktree_path}
        /\ (cmd.cwd = Root => cmd.args[1] \in {"rev-parse", "worktree"})
        /\ (cmd.args[1] = "worktree" /\ cmd.args[2] = "add" =>
                /\ cmd.args[Len(cmd.args)] = f.worktree_path
                /\ SubSeq(cmd.args, 4, Len(cmd.args) - 1) = f.branch_name)
        /\ (cmd.args[1] = "worktree" /\ cmd.args[2] = "remove" =>
                cmd.args[3] = f.worktree_path)

\* C18: two sessions active at the same time on one repository have
\* different temporary directories, worktree paths and branch names, in every
\* interleaving; every command a process issues stays with its own worktree
\* and branch; and an active session's worktree and branch are there, whatever
\* the other process did.
C18_ActiveSessionsDisjoint ==
    /\ \A s \in Procs, t \in Procs :
          s # t /\ Active(s) /\ Active(t) =>
              /\ call[s].temp_dir # call[t].temp_dir
              /\ call[s].worktree_path # call[t].worktree_path
              /\ sess[s].worktree_path # sess[t].worktree_path
              /\ call[s].branch_name # call[t].branch_name
    /\ \A s \in Procs :
          Active(s) => /\ sess[s].worktree_path = call[s].worktree_path
                       /\ call[s].worktree_path \in world.worktrees
                       /\ call[s].worktree_path \in world.paths
                       /\ call[s].branch_name \in world.branches
    /\ \A i \in 1..Len(events) : OwnCommand(events[i].proc, events[i].cmd)
    /\ \A i \in 1..Len(world.commits) :
          \E s \in Procs : world.commits[i].cwd = call[s].worktree_path

\* C18 witness: both sessions active, on branches named from the clock, each
\* with a commit in its own worktree.
C18_Witness ==
    /\ Active(1) /\ Active(2) /\ mgr.branch = <<>>
    /\ Len(world.commits) = 2
    /\ world.commits[1].cwd # world.commits[2].cwd

\* C21: has_changes() returns true exactly when the working copy has an
\* uncommitted modification, and false only when it is clean.
C21_TrueIffUncommittedChanges ==
    call.fn = "has_changes" =>
        call.result.ret = (call.args.cwd \in call.before.dirty)

\* C22: a task subcommand whose session creation or task operation raised
\* ends with an error message on the error stream and a non-zero exit code;
\* one where both succeeded ends with the task's result printed and exit
\* code 0.
C22_ExitCodeTellsFailure ==
    call.exit_code # None =>
        LET failed == sess.kind = "none" \/ Raised(last.exc)
        IN  /\ failed = Raised(outcome)
            /\ (failed => /\ call.exit_code = "1"
                          /\ IsPrefix(<<"X Error: ">> \o outcome.msg, call.stderr)
                          /\ call.stdout = <<>>)
            /\ (~failed => /\ call.exit_code = "0"
                           /\ call.stdout = last.ret /\ last.ret # <<>>
                           /\ call.stderr = <<>>)

\* C22 witness: `oca search` whose generation timed out.
C22_Witness ==
    /\ call.exit_code = "1" /\ call.subcommand = "search"
    /\ last.http = "Timeout" /\ sess.kind = "real"

\* The commands the last run of init_project issued.
InitCmds == SubSeq(world.cmds, Len(call.before.cmds) + 1, Len(world.cmds))
RanGitInit == \E i \in 1..Len(InitCmds) : InitCmds[i].args = <<"init">>

\* C23: init_project runs `git init` only in a directory that is no
\* repository, writes config.yaml only where there is none (an existing one
\* is kept as it is), takes nothing away that was there; a run after a
\* completed run leaves the directory as that run left it; and in dry-run
\* mode it does nothing at all.
C23_InitProjectIdempotent ==
    call.fn = "init_project" =>
        LET b == call.before
        IN  /\ (mgr.dry_run => world = b /\ call.completed)
            /\ (RanGitInit => ~b.isRepo)
            /\ (b.isRepo => world.isRepo)
            /\ (b.ocaDir => world.ocaDir)
            /\ (b.config # None => world.config = b.config)
            /\ (b.gitignore = "absent" => world.gitignore = "absent")
            /\ (b.gitignore = "with" => world.gitignore = "with")
            /\ (call.completed /\ ~mgr.dry_run =>
                    /\ world.isRepo /\ world.ocaDir /\ world.config # None
                    /\ world.gitignore # "without")
            /\ (call.after_completed => Project(world) = Project(b))

\* C23 witness: a second run, with another model, on the directory a first
\* run had turned into a repository with a default configuration.
C23_Witness ==
    /\ call.fn = "init_project" /\ call.after_completed /\ call.completed
    /\ ~mgr.dry_run /\ call.model = "llama2" /\ world.config = DefaultModel
    /\ Len(world.cmds) = 3

\* C24 as claimed: any exception the with-body raises, a task operation's
\* SessionError included, leaves create_session as SessionError 'Failed to
\* create session: ' followed by the original message.
C24_EveryExceptionWrapped ==
    pc = "done" /\ sess.kind = "real" /\ Raised(cb) => outcome = Wrapped(cb.msg)

\* C24 as amended: an exception of the with-body that derives from Exception,
\* a task operation's SessionError included, leaves create_session as
\* SessionError 'Failed to create session: ' followed by the original
\* message, task prefix and all, as a failed worktree creation does; one that
\* does not (KeyboardInterrupt, SystemExit) leaves it unchanged.
C24_ExceptionsWrappedInterruptsPass ==
    pc = "done" /\ sess.kind = "real" /\ Raised(cb) =>
        /\ (cb.type \in ExceptionTypes =>
                /\ outcome.type = "SessionError"
                /\ outcome.msg = <<"Failed to create session: ">> \o cb.msg)
        /\ (cb.type = "SessionError" /\ cb = last.exc =>
                outcome.msg = <<"Failed to create session: ", ClaimedPrefix(last.op), ": ">>
                                  \o last.gen_exc.msg)
        /\ (cb.type \notin ExceptionTypes => outcome = cb)

\* C24 witness: the SessionError of fix, wrapped once more.
C24_Witness ==
    /\ pc = "done" /\ sess.kind = "real" /\ last.op = "fix" /\ cb = last.exc
    /\ last.http = "ConnectionError"
    /\ outcome = Exc("SessionError",
                      <<"Failed to create session: ", "Failed to generate fix", ": ",
                        "Connection failed to ", "url">>)

\* C25: outside dry-run mode the with-body gets a Session only after
\* create_worktree succeeded.  When the repository check or create_worktree
\* fails, no Session is constructed or yielded, the with-body never runs, and
\* there is no generation request, no log write and no commit.
C25_SessionOnlyAfterWorktree ==
    ~mgr.dry_run =>
        /\ (sess.kind # "none" =>
                /\ sess.kind = "real" /\ world.isRepo /\ added.ok
                /\ SubSeq(events, 1, 3) = <<"mkdtemp", "create_worktree", "yield">>)
        /\ (tasks > 0 \/ Raised(cb) => sess.kind = "real")
        /\ (pc = "done" /\ (~world.isRepo \/ ~added.ok) =>
                /\ sess = NoSession
                /\ Positions("yield") = {}
                /\ tasks = 0 /\ last = NoTask /\ cb = NoExc
                /\ world.log = <<>> /\ world.commits = <<>>
                /\ \A i \in 1..Len(world.cmds) :
                      world.cmds[i].cwd = Root
                          /\ world.cmds[i].args[1] \in {"rev-parse", "worktree"}
                /\ outcome.type = "SessionError")

\* C25 witness: create_worktree failed in a repository, and nothing but the
\* repository check, the worktree command and the cleanup ever ran.
C25_Witness ==
    /\ pc = "done" /\ ~mgr.dry_run /\ world.isRepo /\ ~added.ok /\ added.path
    /\ sess = NoSession /\ tasks = 0 /\ Len(world.cmds) = 3

\* C26: a task operation whose generation fails persists nothing: the session
\* log and the commits are what they were before the call, no stage or commit
\* command was issued, whatever auto_commit is, and exactly one generation
\* request was made.
C26_FailedGenerationPersistsNothing ==
    pc = "active" /\ sess.kind = "real" /\ last.op # None /\ Raised(last.gen_exc) =>
        /\ world.log = last.log0
        /\ Len(world.commits) = last.made0
        /\ last.appended = 0 /\ last.commits = 0 /\ last.writes = 0
        /\ \A i \in 1..Len(TaskCmds) : ~IsStage(TaskCmds[i]) /\ ~IsCommit(TaskCmds[i])
        /\ last.requests = 1
        /\ last.exc.type = "SessionError"

\* C26 witness: with auto_commit set, an operation that logged and committed
\* is followed by one whose generation timed out.
C26_Witness ==
    /\ pc = "active" /\ sess.kind = "real" /\ sess.auto_commit /\ tasks = 2
    /\ Raised(last.gen_exc) /\ last.requests = 1
    /\ Len(last.log0) = 1 /\ last.made0 = 1
    /\ world.log = last.log0

\* The `command` field each task operation writes to the session log, and the
\* prompt it logs.
LogCommand(op) ==
    CASE op = "generate_tests" -> "test"
      [] op = "create_commit" -> "commit"
      [] op = "search_code" -> "search"
      [] OTHER -> op
LoggedPrompt(t) ==
    IF t.op = "create_commit" /\ t.a.prompt = <<>>
    THEN <<"Analyze the changes and create an appropriate commit message">>
    ELSE t.a.prompt
\* Positions of the status query, the staging and the commit among the
\* commands of the last operation.
TaskPositions(P(_)) == { i \in 1..Len(TaskCmds) : P(TaskCmds[i]) }
IsStatus(c) == c.args = <<"status", "--porcelain">>

\* C27: the session log of one Session is append-only.  Each task operation
\* that succeeds with auto_commit set appends exactly its own entry at the end
\* when the log write succeeds (a failed mkdir or write is the only other
\* outcome, and leaves the log as it was); every other operation leaves the
\* log as it was.  Commits never outnumber log entries, and an operation
\* commits at most once, after its append and after a status query that
\* reported changes.
C27_LogAppendOnly ==
    /\ [][ LET t == last'
               entry == [command |-> LogCommand(t.op), prompt |-> LoggedPrompt(t),
                         response |-> t.ret]
           IN  /\ IsPrefix(world.log, world'.log)
               /\ IF ~Raised(t.exc) /\ sess.auto_commit
                  THEN \/ t.writes = 2 /\ world'.log = Append(world.log, entry)
                       \/ t.writes < 2 /\ world'.log = world.log
                  ELSE world'.log = world.log
               /\ Len(world'.commits) - Len(world.commits) \in {0, 1}
               /\ IsPrefix(world.commits, world'.commits) ]_vars
    /\ [](Len(world.commits) <= Len(world.log))
    /\ [](AfterRealTask /\ Len(world.commits) > last.made0 =>
            /\ last.appended = 1 /\ last.has_changes = "True"
            /\ Len(world.log) = Len(last.log0) + 1
            /\ \E i \in TaskPositions(IsStatus), j \in TaskPositions(IsCommit) : i < j
            /\ \A k \in 1..Len(TaskCmds) : TaskCmds[k].cwd = sess.worktree_path)

\* C27 witness: two operations in a row each appended its entry and committed.
C27_Witness ==
    /\ tasks = 2 /\ sess.auto_commit /\ Len(world.log) = 2 /\ Len(world.commits) = 2
    /\ last.log0 = <<world.log[1]>>
    /\ world.log[1].command # world.log[2].command

\* Commands create_session itself runs at the repository root.
IsRootCommand(c) ==
    \/ c.args[1] = "rev-parse"
    \/ c.args[1] = "worktree" /\ c.args[2] \in {"add", "remove"}

\* C28: a session never touches the main checkout.  Every status, stage and
\* commit command runs in the session's worktree, every commit is made there,
\* and the session log exists only while that worktree does; at the repository
\* root only the repository check, worktree add and worktree remove run; the
\* main working copy keeps its state (clean or with the user's changes) and
\* its branch through every step.
C28_MainCheckoutUntouched ==
    /\ [](\A i \in 1..Len(world.cmds) :
            LET c == world.cmds[i]
            IN  /\ c.cwd \in {Root, WorktreePath}
                /\ (c.cwd = Root => IsRootCommand(c))
                /\ (IsStatus(c) \/ IsStage(c) \/ IsCommit(c) => c.cwd = WorktreePath))
    /\ [](\A i \in 1..Len(world.commits) : world.commits[i].cwd = WorktreePath)
    /\ [](world.log # <<>> => sess.kind = "real" /\ sess.worktree_path = WorktreePath
                                /\ pc = "active")
    /\ [][ /\ (Root \in world.dirty) <=> (Root \in world'.dirty)
           /\ <<"main">> \in world'.branches ]_vars

\* C28 witness: a session that logged and committed twice has ended and its
\* worktree is removed, while the user's uncommitted changes in the main
\* checkout are still there.
C28_Witness ==
    /\ pc = "done" /\ cleanup = "removed" /\ Len(world.commits) = 2
    /\ Root \in world.dirty /\ WorktreePath \notin world.paths

\* What create_commit puts in front of its context.
GitStatusContext == "Git Status:\n"
NoChangesContext == "No changes detected in working directory."
CouldNotAnalyze == "Could not analyze changes: "
AfterCreateCommit == AfterRealTask /\ last.op = "create_commit"

\* C29: create_commit on a worktree with uncommitted changes (the status query
\* answering) sends a context built from the status and the diff; on a clean
\* worktree the context says no changes were detected; and whatever happens
\* while the context is gathered, generation is requested.
C29_ContextFromStatusAndDiff ==
    AfterCreateCommit =>
        /\ (last.dirty0 /\ last.pre => last.context[1] = GitStatusContext)
        /\ (~last.dirty0 /\ last.pre => last.context[1] = NoChangesContext)
        /\ (sess.mock_mode \/ last.requests = 1)

\* The parts of C29 the code does keep: a clean worktree, or a status query
\* that fails, gives the no-changes context; generation is always requested
\* and gets the context that was gathered; with changes present the context
\* is the could-not-analyze text.
C29_WhatCreateCommitSends ==
    AfterCreateCommit =>
        /\ (last.dirty0 /\ last.pre <=> last.context[1] = CouldNotAnalyze)
        /\ (~(last.dirty0 /\ last.pre) <=> last.context[1] = NoChangesContext)
        /\ (sess.mock_mode \/ last.requests = 1)
        /\ (~sess.mock_mode => IsSuffix(last.context, SubSeq(last.sent, 1, 1 + Len(last.context))))

\* Process s issued `git worktree add` / `git worktree remove` at these
\* positions of the command history.
WorktreeCmdsOf(s, verb) ==
    { i \in 1..Len(events) : /\ events[i].proc = s
                              /\ events[i].cmd.args[1] = "worktree"
                              /\ events[i].cmd.args[2] = verb }

\* C30: create_session reaching create_worktree with a branch name the
\* repository already has (left by an earlier session, or generated by another
\* session in the same second) ends there with SessionError and yields no
\* Session; the step leaves the branches, the worktrees checked out, their
\* uncommitted changes and the commits as they were, and the one command it
\* issues asks for a new branch (-b).
C30_ExistingBranchRefused ==
    [][ \A s \in Procs :
          pc[s] = "tempdir" /\ pc'[s] # "tempdir" /\ call[s].branch_name \in world.branches =>
             /\ pc'[s] = "done"
             /\ sess'[s] = NoSession
             /\ outcome'[s].type = "SessionError"
             /\ IsPrefix(<<"Failed to create session: ">>, outcome'[s].msg)
             /\ world'.branches = world.branches
             /\ world'.worktrees = world.worktrees
             /\ world'.dirty = world.dirty
             /\ world'.commits = world.commits
             /\ world'.log = world.log
             /\ \A i \in (Len(events) + 1)..Len(events') :
                   /\ events'[i].proc = s
                   /\ SubSeq(events'[i].cmd.args, 1, 3) = <<"worktree", "add", "-b">> ]_vars

\* C30 witness: process 1 had a session on its branch, committed there and
\* removed its worktree; process 2 then asked for the same branch name and
\* ended with SessionError, no Session yielded, the branch still there.
C30_Witness ==
    /\ pc[1] = "done" /\ sess[1].kind = "real" /\ cleanup[1] = "removed"
    /\ pc[2] = "done" /\ sess[2] = NoSession /\ outcome[2].type = "SessionError"
    /\ call[1].branch_name = call[2].branch_name
    /\ call[1].branch_name \in world.branches
    /\ Len(world.commits) >= 1
    /\ \E i \in WorktreeCmdsOf(1, "remove"), j \in WorktreeCmdsOf(2, "add") : i < j
====
